---- MODULE Spec2Model ----
(***************************************************************************)
(* pontifex: typed request/response RPC over vsock.                        *)
(*                                                                         *)
(* The model covers the route registry (Router::new / route), the serve    *)
(* loop (bind, secure-module init, accept, spawn), the per-connection task *)
(* (handle_connection and TypedHandler::handle), the client send path and  *)
(* the Stream wrapper (read_exact, shutdown on drop).  Streams are byte    *)
(* sequences; integers on the wire are big-endian; payloads are the        *)
(* MessagePack bytes rmp_serde produces for the request types used.        *)
(* Besides send, a raw peer writes frames of its own choosing.             *)
(*                                                                         *)
(* Numbers: TLC integers are 32-bit signed, so a u32 is held as two 16-bit *)
(* halves <<hi, lo>> and a u64 as four 16-bit limbs, most significant      *)
(* first.                                                                  *)
(***************************************************************************)
EXTENDS Integers, Sequences, FiniteSets, TLC

\* ------------------------------------------------------------------ bounds
MaxConns == 2
MaxFaults == 1
MaxRoutes == 2

Conns == 1..MaxConns

\* ------------------------------------------------------- integers and bytes
RECURSIVE BitXor(_, _)
BitXor(a, b) ==
    IF a = 0 THEN b
    ELSE IF b = 0 THEN a
    ELSE ((a + b) % 2) + 2 * BitXor(a \div 2, b \div 2)

\* h * 0x01000193 mod 2^32 on 16-bit halves.
Fnv1aMulPrime(h) ==
    LET lo == h[2] * 403
        hi == h[1] * 403 + h[2] * 256 + (lo \div 65536)
    IN  <<hi % 65536, lo % 65536>>

\* (mutant: FNV-1, the multiplication before the xor)
RECURSIVE Fnv1Fold(_, _)
Fnv1Fold(h, s) ==
    IF s = <<>> THEN h
    ELSE LET m == Fnv1aMulPrime(h) IN Fnv1Fold(<<m[1], BitXor(m[2], Head(s))>>, Tail(s))

RECURSIVE Fnv1aFold(_, _)
Fnv1aFold(h, s) ==
    IF s = <<>> THEN h
    ELSE Fnv1aFold(Fnv1aMulPrime(<<h[1], BitXor(h[2], Head(s))>>), Tail(s))

\* FNV-1a 32-bit of the UTF-8 bytes s, offset basis 0x811C9DC5.
fnv1a_hash_str_32(s) == Fnv1aFold(<<33052, 40389>>, s)

\* write_u32 / read_u32: big-endian.
write_u32(v) == <<v[1] \div 256, v[1] % 256, v[2] \div 256, v[2] % 256>>
\* (mutant: the bytes read as little-endian)
read_u32_le(b) == <<b[4] * 256 + b[3], b[2] * 256 + b[1]>>
read_u32(b) == <<b[1] * 256 + b[2], b[3] * 256 + b[4]>>

\* `len() as u64` of an in-memory length.
as_u64(n) == <<0, 0, n \div 65536, n % 65536>>

\* (mutant: the length goes out least significant byte first)
write_u64_le(v) ==
    <<v[4] % 256, v[4] \div 256, v[3] % 256, v[3] \div 256,
      v[2] % 256, v[2] \div 256, v[1] % 256, v[1] \div 256>>
\* write_u64 / read_u64: big-endian.
write_u64(v) ==
    <<v[1] \div 256, v[1] % 256, v[2] \div 256, v[2] % 256,
      v[3] \div 256, v[3] % 256, v[4] \div 256, v[4] % 256>>
read_u64(b) ==
    <<b[1] * 256 + b[2], b[3] * 256 + b[4], b[5] * 256 + b[6], b[7] * 256 + b[8]>>

\* ---------------------------------------------------------- request types
\* Echo and HealthCheck are the example's types; Missing is a type only the
\* client knows; Costarring and Liquid are two types whose route ids collide
\* under FNV-1a 32 (both 0x5E4DAA9D): both carry one string, Costarring is
\* answered with an EchoResponse and Liquid with a HealthStatus.
RequestTypes == {"Echo", "HealthCheck", "Missing", "Costarring", "Liquid"}

ROUTE_ID(R) ==
    CASE R = "Echo"        -> <<101, 99, 104, 111, 95, 118, 49>>
      [] R = "HealthCheck" -> <<104, 101, 97, 108, 116, 104, 95, 118, 49>>
      [] R = "Missing"     -> <<109, 105, 115, 115, 105, 110, 103, 95, 118, 49>>
      [] R = "Costarring"  -> <<99, 111, 115, 116, 97, 114, 114, 105, 110, 103>>
      [] R = "Liquid"      -> <<108, 105, 113, 117, 105, 100>>

TypeIdTable == [R \in RequestTypes |-> fnv1a_hash_str_32(ROUTE_ID(R))]

type_id(R) == TypeIdTable[R]

ResponseType(R) ==
    CASE R = "Echo"        -> "EchoResponse"
      [] R = "HealthCheck" -> "HealthStatus"
      [] R = "Missing"     -> "Unit"
      [] R = "Costarring"  -> "EchoResponse"
      [] R = "Liquid"      -> "HealthStatus"

\* Request values a client may send, per type.
RequestValues(R) ==
    CASE R = "Echo"        -> {[t |-> "Echo", message |-> <<65>>],
                               [t |-> "Echo", message |-> <<66>>]}
      [] R = "HealthCheck" -> {[t |-> "HealthCheck"]}
      [] R = "Missing"     -> {[t |-> "Missing"]}
      [] R = "Costarring"  -> {[t |-> "Costarring", message |-> <<67>>]}
      [] R = "Liquid"      -> {[t |-> "Liquid", message |-> <<68>>]}

\* ------------------------------------------------------------ MessagePack
MpArrayLen(n) == <<144 + n>>
MpStr(s) == <<160 + Len(s)>> \o s
MpBool(b) == <<IF b THEN 195 ELSE 194>>
MpUint(n) ==
    IF n < 128 THEN <<n>>
    ELSE IF n < 256 THEN <<204, n>>
    ELSE IF n < 65536 THEN <<205, n \div 256, n % 256>>
    ELSE <<206, n \div 16777216, (n \div 65536) % 256, (n \div 256) % 256, n % 256>>

\* rmp_serde::to_vec: structs are arrays of their fields, a unit struct is
\* the empty array.
to_vec(v) ==
    CASE v.t \in {"Echo", "Costarring", "Liquid"} -> MpArrayLen(1) \o MpStr(v.message)
      [] v.t = "HealthCheck"  -> MpArrayLen(0)
      [] v.t = "Missing"      -> MpArrayLen(0)
      [] v.t = "Unit"         -> MpArrayLen(0)
      [] v.t = "EchoResponse" -> MpArrayLen(2) \o MpStr(v.echoed) \o MpUint(v.timestamp)
      [] v.t = "HealthStatus" -> MpArrayLen(2) \o MpBool(v.healthy) \o MpStr(v.version)

DecodeError == [t |-> "DecodeError"]

IsStrAt(b, i) == Len(b) >= i /\ b[i] >= 160 /\ b[i] < 192 /\ Len(b) >= i + (b[i] - 160)
StrAt(b, i) == SubSeq(b, i + 1, i + (b[i] - 160))
StrEnd(b, i) == i + (b[i] - 160) + 1

IsUintAt(b, i) ==
    /\ Len(b) >= i
    /\ \/ b[i] < 128
       \/ b[i] = 204 /\ Len(b) >= i + 1
       \/ b[i] = 205 /\ Len(b) >= i + 2
       \/ b[i] = 206 /\ Len(b) >= i + 4 /\ b[i + 1] < 128
UintAt(b, i) ==
    IF b[i] < 128 THEN b[i]
    ELSE IF b[i] = 204 THEN b[i + 1]
    ELSE IF b[i] = 205 THEN b[i + 1] * 256 + b[i + 2]
    ELSE b[i + 1] * 16777216 + b[i + 2] * 65536 + b[i + 3] * 256 + b[i + 4]

\* rmp_serde::from_slice into type T: the value, or DecodeError when the
\* bytes are not a T (empty input, wrong marker, wrong field type, short).
from_slice(T, b) ==
    CASE T \in {"Echo", "Costarring", "Liquid"} ->
            IF Len(b) >= 1 /\ b[1] = 145 /\ IsStrAt(b, 2)
            THEN [t |-> T, message |-> StrAt(b, 2)] ELSE DecodeError
      [] T \in {"HealthCheck", "Missing", "Unit"} ->
            IF Len(b) >= 1 /\ b[1] = 144 THEN [t |-> T] ELSE DecodeError
      [] T = "EchoResponse" ->
            IF Len(b) >= 1 /\ b[1] = 146 /\ IsStrAt(b, 2) /\ IsUintAt(b, StrEnd(b, 2))
            THEN [t |-> T, echoed |-> StrAt(b, 2), timestamp |-> UintAt(b, StrEnd(b, 2))]
            ELSE DecodeError
      [] T = "HealthStatus" ->
            IF Len(b) >= 2 /\ b[1] = 146 /\ b[2] \in {194, 195} /\ IsStrAt(b, 3)
            THEN [t |-> T, healthy |-> (b[2] = 195), version |-> StrAt(b, 3)]
            ELSE DecodeError

\* --------------------------------------------------------------- handlers
\* User handlers: (state, request) -> response.  h1 is the example's handler
\* for the type (handle_echo, handle_health); h2 is another handler for the
\* same type, used to tell two registrations apart.
Handlers == {"h1", "h2"}

\* "You said: "
YouSaid == <<89, 111, 117, 32, 115, 97, 105, 100, 58, 32>>
\* env!("CARGO_PKG_VERSION"): "0.1.0"
PkgVersion == <<48, 46, 49, 46, 48>>
\* as_secs() of the clock at the time of the call.
Clock == 1700000000

InvokeHandler(h, request) ==
    LET U == ResponseType(request.t) IN
    CASE U = "EchoResponse" ->
            IF h = "h1"
            THEN [t |-> U, echoed |-> YouSaid \o request.message, timestamp |-> Clock]
            ELSE [t |-> U, echoed |-> <<>>, timestamp |-> 0]
      [] U = "HealthStatus" ->
            [t |-> U, healthy |-> (h = "h1"), version |-> PkgVersion]
      [] U = "Unit" -> [t |-> U]

\* ------------------------------------------------------------------ state
VARIABLES
    routes,       \* Router.routes: set of entries [key, R, handler]
    history,      \* the route() calls made so far, in order
    servePc,      \* "building" | "nsm" | "accept" | "returned"
    serveResult,  \* what serve returned
    nsm,          \* SECURE_MODULE_GLOBAL: "disabled" | "uninit" | "earlier" | "init"
    client,       \* per connection: the send call
    task,         \* per connection: the spawned handle_connection task
    stream,       \* per connection: the vsock stream, both directions
    serveFailure, \* the failure the listener or the secure module reported, if any
    faulty,       \* per connection: an I/O failure or a cancellation was injected
    faults,       \* I/O failures and cancellations injected so far
    usizeBits,    \* target_pointer_width of the build: 32 | 64
    nsmTrace,     \* how often serve called SecureModule::connect and get_or_init
    appState,     \* the application state values allocated, by allocation
    routeId,      \* a ROUTE_ID string, as UTF-8 bytes
    computed      \* what type_id() of that ROUTE_ID returned in the client and in the server

vars == <<routes, history, servePc, serveResult, serveFailure, nsm, client, task,
          stream, faulty, faults, usizeBits, nsmTrace, appState, routeId, computed>>

hashVars == <<routeId, computed>>

envVars == <<usizeBits, nsmTrace, appState, hashVars>>

serveVars == <<servePc, serveResult, serveFailure>>

NoResult == [kind |-> "None"]
Ok(v) == [kind |-> "Ok", value |-> v]
Err(kind) == [kind |-> kind]
ErrKey(kind, key) == [kind |-> kind, key |-> key]
UnknownRequest(id) == [kind |-> "UnknownRequest", type_id |-> id]
\* The call did not return: it panicked and was unwound.
Panicked == [kind |-> "Panic"]

NoValue == [t |-> "None"]

ClientInit ==
    [pc |-> "idle", request |-> NoValue, request_bytes |-> <<>>, len |-> as_u64(0),
     response |-> <<>>, result |-> NoResult, steps |-> <<>>, failed |-> "",
     injected |-> FALSE]

TaskInit ==
    [pc |-> "none", type_id |-> <<0, 0>>, R |-> "", handler |-> "", len |-> as_u64(0),
     payload |-> <<>>, request |-> NoValue, response |-> NoValue,
     response_bytes |-> <<>>, result |-> NoResult, steps |-> <<>>, invoked |-> 0,
     afterFailure |-> FALSE, state |-> 0, seen |-> 0, nsmSeen |-> "none",
     holdsRouter |-> FALSE, holdsState |-> FALSE, aliveSeen |-> FALSE]

\* st: "none" | "pending" (connected, in the listener's queue) | "open"
\* (accepted) | "reset" (the listener was dropped before accepting it).
\* c2s / s2c: every byte written in that direction; rd / crd: how many of
\* them the server / the client has consumed.  cShut / sShut: that end has
\* been released (its socket is closed).  cSd / sSd: what the shutdown call of
\* that end's Drop returned, "none" while no Drop of the end has run.
StreamInit ==
    [st |-> "none", c2s |-> <<>>, rd |-> 0, s2c |-> <<>>, crd |-> 0,
     cShut |-> FALSE, sShut |-> FALSE, cSd |-> "none", sSd |-> "none"]

\* (mutant: the entry is added beside the one the key has)
HashMapInsertKeepsOld(m, k, v) == m \cup {v}
\* (mutant: entry(k).or_insert(v), the entry the key has is kept)
HashMapInsertFirstWins(m, k, v) == IF \E e \in m : e.key = k THEN m ELSE m \cup {v}
\* HashMap::insert: the entry for the key is replaced.
HashMapInsert(m, k, v) == {e \in m : e.key # k} \cup {v}
HashMapGet(m, k) == {e \in m : e.key = k}

\* Router.state: the allocation Arc::new(state) made at construction.
RouterState == 1
\* Arc::clone: another handle to the same allocation.
ArcClone(h) == h

\* Router::route::<R>(handler)
RouterRoute(m, R, h) ==
    HashMapInsert(m, type_id(R), [key |-> type_id(R), R |-> R, handler |-> h])

\* The example enclave's router:
\* Router::new().route::<Echo>(handle_echo).route::<HealthCheck>(handle_health)
ExampleCalls == <<[R |-> "Echo", handler |-> "h1"], [R |-> "HealthCheck", handler |-> "h1"]>>
ExampleRouter == RouterRoute(RouterRoute({}, "Echo", "h1"), "HealthCheck", "h1")

InitCommon ==
    /\ servePc = "building"
    /\ serveResult = NoResult
    /\ serveFailure = ""
    /\ faulty = [c \in Conns |-> FALSE]
    /\ client = [c \in Conns |-> ClientInit]
    /\ task = [c \in Conns |-> TaskInit]
    /\ stream = [c \in Conns |-> StreamInit]
    /\ faults = 0
    /\ nsmTrace = [connect |-> 0, get_or_init |-> 0]
    /\ appState = <<0>>

\* No type_id() call is looked at on its own.
NoHash == <<>>
InitHashIdle ==
    /\ routeId = <<>>
    /\ computed = [client |-> NoHash, server |-> NoHash]

\* Router::new(), before any route() call.
InitRouter ==
    /\ routes = {}
    /\ history = <<>>
    /\ usizeBits = 64
    /\ nsm \in {"disabled", "uninit"}
    /\ InitCommon
    /\ InitHashIdle

\* The example's router, built, before serve().  The nsm feature is off
\* ("disabled"), or it is on and the global is empty ("uninit") or holds the
\* module an earlier serve call of the process put there ("earlier").
Init ==
    /\ routes = ExampleRouter
    /\ history = ExampleCalls
    /\ usizeBits = 64
    /\ nsm \in {"disabled", "uninit", "earlier"}
    /\ InitCommon
    /\ InitHashIdle

\* ----------------------------------------------------------------- streams
Avail(buf, pos) == Len(buf) - pos
Take(buf, pos, n) == SubSeq(buf, pos + 1, pos + n)

\* What shutdown(Shutdown::Both) may return: it fails (ENOTCONN) only on a
\* connection the peer has already closed.
ShutdownOutcomes(peerClosed) == IF peerClosed THEN {"ok", "failed"} ELSE {"ok"}

\* Drop for Stream: shutdown(Shutdown::Both), its result ignored, then the
\* socket itself is dropped and closed.  The streams the drop can leave, one
\* per outcome of the shutdown call.
DropClientEnd(s) ==
    {[s EXCEPT !.cShut = TRUE, !.cSd = sd] : sd \in ShutdownOutcomes(s.sShut)}
\* (mutant: the stream is leaked, as by mem::forget: no Drop runs)
DropServerEndForgotten(s) == {s}
DropServerEnd(s) ==
    {[s EXCEPT !.sShut = TRUE, !.sSd = sd] : sd \in ShutdownOutcomes(s.cShut)}

\* Dropping the listener resets the connections still in its queue.
DropListener(st) ==
    [c \in Conns |->
        IF st[c].st = "pending" THEN [st[c] EXCEPT !.st = "reset", !.sShut = TRUE]
        ELSE st[c]]

\* usize::try_from(size): an error when the u64 does not fit the target's
\* usize (never on a 64-bit target).
usize_try_from(v) ==
    [ok |-> ~(usizeBits = 32 /\ (v[1] # 0 \/ v[2] # 0)), value |-> v]

\* vec![0; n] with n above isize::MAX panics with "capacity overflow".
CapacityOverflow(n) == IF usizeBits = 32 THEN n[3] >= 32768 ELSE n[1] >= 32768

\* vec![0; n] asks the allocator for n zeroed bytes; when the allocator
\* refuses, handle_alloc_error aborts the process.  Requests of 2^31 bytes
\* and more are the ones taken to be refusable.
AllocMayFail(n) == n[1] # 0 \/ n[2] # 0 \/ n[3] >= 32768

\* The length of the buffer as a number.  A buffer of 2^31 bytes or more is
\* longer than any stream here, which is all that is used of its length.
BufLen(n) == IF AllocMayFail(n) THEN 2147483647 ELSE n[3] * 65536 + n[4]

\* Stream::read_exact(size), up to the read: the conversion fails, the
\* allocation panics, or there is a buffer to fill.
read_exact_buf(size) ==
    IF ~usize_try_from(size).ok THEN "InvalidInput"
    ELSE IF CapacityOverflow(usize_try_from(size).value) THEN "panic"
    ELSE "buffer"

\* The spawned task ended with Err(e): handle_connection returned an error.
TaskFailed(c) == task[c].pc = "done" /\ task[c].result.kind # "Ok"

CanFault == faults < MaxFaults

\* Arc<Router<S>> and Arc<S>: a value lives while a handle to it does.  serve
\* owns the router (as self, then as its Arc) until it returns; a task holds
\* the clone it was spawned with (holdsRouter) until it ends, and the state
\* handle handle_connection cloned for the handler (holdsState) until the
\* handler has returned or the task has ended; the router holds one handle to
\* the state while it lives.
RouterHandles ==
    (IF servePc = "returned" THEN 0 ELSE 1) + Cardinality({c \in Conns : task[c].holdsRouter})
RouterAlive == RouterHandles > 0
StateHandles ==
    (IF RouterAlive THEN 1 ELSE 0) + Cardinality({c \in Conns : task[c].holdsState})
StateAlive == StateHandles > 0
ListenerBound == servePc \in {"nsm", "accept"}

\* ------------------------------------------------------------ client send
\* A call leaves send with result res; failedStep names the step that failed
\* ("" when none did).  The stream, if any, is dropped on the way out.
ClientReturn(c, step, res, failedStep, injected) ==
    /\ client' = [client EXCEPT ![c].pc = "done",
                                ![c].result = res,
                                ![c].steps = Append(@, step),
                                ![c].failed = failedStep,
                                ![c].injected = injected]
    /\ faulty' = [faulty EXCEPT ![c] = @ \/ injected]
    /\ faults' = IF injected THEN faults + 1 ELSE faults

\* (mutant: the result of the write is ignored, the call goes on)
ClientWriteIgnoreError(c, step, bytes, key, nextPc) ==
    /\ stream' = [stream EXCEPT ![c].c2s = IF stream[c].sShut THEN @ ELSE @ \o bytes]
    /\ client' = [client EXCEPT ![c].pc = nextPc, ![c].steps = Append(@, step)]
    /\ UNCHANGED <<faulty, faults>>

\* A write of `bytes` by the client: it succeeds; or it fails because the
\* peer end is shut down (EPIPE); or it fails on an injected I/O error after
\* k < Len(bytes) bytes went out.
ClientWrite(c, step, bytes, key, nextPc) ==
    \/ /\ stream' = [stream EXCEPT ![c].c2s = @ \o bytes]
       /\ client' = [client EXCEPT ![c].pc = nextPc, ![c].steps = Append(@, step)]
       /\ UNCHANGED <<faulty, faults>>
    \/ /\ stream[c].sShut
       /\ \E e \in DropClientEnd(stream[c]) : stream' = [stream EXCEPT ![c] = e]
       /\ ClientReturn(c, step, ErrKey("Writing", key), step, FALSE)
    \/ /\ CanFault
       /\ \E k \in 0..(Len(bytes) - 1) :
            \E e \in DropClientEnd([stream[c] EXCEPT !.c2s = @ \o SubSeq(bytes, 1, k)]) : stream' = [stream EXCEPT ![c] = e]
       /\ ClientReturn(c, step, ErrKey("Writing", key), step, TRUE)

\* send(connection, &request), up to Stream::connect.
Send(c, R, r) ==
    /\ client[c].pc = "idle"
    /\ \A d \in Conns : d < c => client[d].pc # "idle"
    /\ r \in RequestValues(R)
    /\ \/ /\ ListenerBound
          /\ client' = [client EXCEPT ![c].pc = "write_type_id", ![c].request = r,
                                      ![c].steps = <<"connect">>]
          /\ stream' = [stream EXCEPT ![c].st = "pending"]
          /\ UNCHANGED <<faulty, faults>>
       \/ /\ ~ListenerBound
          /\ client' = [client EXCEPT ![c].pc = "done", ![c].request = r,
                                      ![c].steps = <<"connect">>,
                                      ![c].result = Err("Connection"),
                                      ![c].failed = "connect"]
          /\ UNCHANGED <<stream, faulty, faults>>
       \/ /\ ListenerBound
          /\ CanFault
          /\ client' = [client EXCEPT ![c].pc = "done", ![c].request = r,
                                      ![c].steps = <<"connect">>,
                                      ![c].result = Err("Connection"),
                                      ![c].failed = "connect",
                                      ![c].injected = TRUE]
          /\ faulty' = [faulty EXCEPT ![c] = TRUE]
          /\ faults' = faults + 1
          /\ UNCHANGED stream
    /\ UNCHANGED <<envVars, routes, history, serveVars, nsm, task>>

\* stream.write_u32(type_id)
ClientWriteTypeId(c) ==
    /\ client[c].pc = "write_type_id"
    /\ ClientWrite(c, "write_type_id", write_u32(type_id(client[c].request.t)), "Length", "encode")
    /\ UNCHANGED <<envVars, routes, history, serveVars, nsm, task>>

\* (mutant: when the encode fails, a length field of 0 is sent before send
\* returns)
ClientEncodeSendsEmpty(c) ==
    /\ client[c].pc = "encode"
    /\ \/ /\ client' = [client EXCEPT ![c].pc = "write_len",
                                      ![c].request_bytes = to_vec(client[c].request),
                                      ![c].steps = Append(@, "encode")]
          /\ UNCHANGED <<stream, faulty, faults>>
       \/ /\ CanFault
          /\ \E e \in DropClientEnd([stream[c] EXCEPT !.c2s = @ \o write_u64(as_u64(0))]) :
                stream' = [stream EXCEPT ![c] = e]
          /\ ClientReturn(c, "encode", Err("Encoding"), "encode", TRUE)
    /\ UNCHANGED <<envVars, routes, history, serveVars, nsm, task>>

\* rmp_serde::to_vec(request)
ClientEncode(c) ==
    /\ client[c].pc = "encode"
    /\ \/ /\ client' = [client EXCEPT ![c].pc = "write_len",
                                      ![c].request_bytes = to_vec(client[c].request),
                                      ![c].steps = Append(@, "encode")]
          /\ UNCHANGED <<stream, faulty, faults>>
       \/ /\ CanFault
          /\ \E e \in DropClientEnd(stream[c]) : stream' = [stream EXCEPT ![c] = e]
          /\ ClientReturn(c, "encode", Err("Encoding"), "encode", TRUE)
    /\ UNCHANGED <<envVars, routes, history, serveVars, nsm, task>>

\* (mutant: a failure of the length write is reported as Writing(Payload))
ClientWriteLenWrongKey(c) ==
    /\ client[c].pc = "write_len"
    /\ ClientWrite(c, "write_len", write_u64(as_u64(Len(client[c].request_bytes))), "Payload", "write_payload")
    /\ UNCHANGED <<envVars, routes, history, serveVars, nsm, task>>

\* stream.write_u64(request_bytes.len() as u64)
ClientWriteLen(c) ==
    /\ client[c].pc = "write_len"
    /\ ClientWrite(c, "write_len", write_u64(as_u64(Len(client[c].request_bytes))), "Length", "write_payload")
    /\ UNCHANGED <<envVars, routes, history, serveVars, nsm, task>>

\* (mutant: write instead of write_all, which may take only part of the
\* buffer, and the call goes on)
ClientWritePayloadOnce(c) ==
    /\ client[c].pc = "write_payload"
    /\ \E k \in 0..Len(client[c].request_bytes) :
         stream' = [stream EXCEPT ![c].c2s = @ \o SubSeq(client[c].request_bytes, 1, k)]
    /\ client' = [client EXCEPT ![c].pc = "read_len", ![c].steps = Append(@, "write_payload")]
    /\ UNCHANGED <<envVars, routes, history, serveVars, nsm, task, faulty, faults>>

\* stream.write_all(&request_bytes)
ClientWritePayload(c) ==
    /\ client[c].pc = "write_payload"
    /\ ClientWrite(c, "write_payload", client[c].request_bytes, "Payload", "read_len")
    /\ UNCHANGED <<envVars, routes, history, serveVars, nsm, task>>

\* stream.read_u64()
ClientReadLen(c) ==
    /\ client[c].pc = "read_len"
    /\ LET s == stream[c] IN
       \/ /\ Avail(s.s2c, s.crd) >= 8
          /\ client' = [client EXCEPT ![c].pc = "read_payload",
                                      ![c].len = read_u64(Take(s.s2c, s.crd, 8)),
                                      ![c].steps = Append(@, "read_len")]
          /\ stream' = [stream EXCEPT ![c].crd = @ + 8]
          /\ UNCHANGED <<faulty, faults>>
       \/ /\ Avail(s.s2c, s.crd) < 8
          /\ s.sShut
          /\ \E e \in DropClientEnd([stream[c] EXCEPT !.crd = Len(s.s2c)]) : stream' = [stream EXCEPT ![c] = e]
          /\ ClientReturn(c, "read_len", ErrKey("Reading", "Length"), "read_len", FALSE)
       \/ /\ CanFault
          /\ \E e \in DropClientEnd(stream[c]) : stream' = [stream EXCEPT ![c] = e]
          /\ ClientReturn(c, "read_len", ErrKey("Reading", "Length"), "read_len", TRUE)
    /\ UNCHANGED <<envVars, routes, history, serveVars, nsm, task>>

\* (mutant: read instead of read_exact: at the end of the stream the read
\* returns the bytes that came, and send goes on with them)
ClientReadPayloadLenient(c) ==
    /\ client[c].pc = "read_payload"
    /\ LET s == stream[c]
           n == BufLen(client[c].len) IN
       \/ /\ Avail(s.s2c, s.crd) >= n
          /\ client' = [client EXCEPT ![c].pc = "decode",
                                      ![c].response = Take(s.s2c, s.crd, n),
                                      ![c].steps = Append(@, "read_payload")]
          /\ stream' = [stream EXCEPT ![c].crd = @ + n]
       \/ /\ Avail(s.s2c, s.crd) < n
          /\ s.sShut
          /\ client' = [client EXCEPT ![c].pc = "decode",
                                      ![c].response = Take(s.s2c, s.crd, Avail(s.s2c, s.crd)),
                                      ![c].steps = Append(@, "read_payload")]
          /\ stream' = [stream EXCEPT ![c].crd = Len(s.s2c)]
    /\ UNCHANGED <<faulty, faults>>
    /\ UNCHANGED <<envVars, routes, history, serveVars, nsm, task>>

\* stream.read_exact(len)
ClientReadPayload(c) ==
    /\ client[c].pc = "read_payload"
    /\ LET s == stream[c]
           buf == read_exact_buf(client[c].len)
           n == BufLen(client[c].len) IN
       \/ /\ buf = "InvalidInput"
          /\ \E e \in DropClientEnd(stream[c]) : stream' = [stream EXCEPT ![c] = e]
          /\ ClientReturn(c, "read_payload", ErrKey("Reading", "Payload"), "read_payload", FALSE)
       \/ /\ buf = "panic"
          /\ \E e \in DropClientEnd(stream[c]) : stream' = [stream EXCEPT ![c] = e]
          /\ ClientReturn(c, "read_payload", Panicked, "read_payload", FALSE)
       \/ /\ buf = "buffer"
          /\ Avail(s.s2c, s.crd) >= n
          /\ client' = [client EXCEPT ![c].pc = "decode",
                                      ![c].response = Take(s.s2c, s.crd, n),
                                      ![c].steps = Append(@, "read_payload")]
          /\ stream' = [stream EXCEPT ![c].crd = @ + n]
          /\ UNCHANGED <<faulty, faults>>
       \/ /\ buf = "buffer"
          /\ Avail(s.s2c, s.crd) < n
          /\ s.sShut
          /\ \E e \in DropClientEnd([stream[c] EXCEPT !.crd = Len(s.s2c)]) : stream' = [stream EXCEPT ![c] = e]
          /\ ClientReturn(c, "read_payload", ErrKey("Reading", "Payload"), "read_payload", FALSE)
       \/ /\ buf = "buffer"
          /\ CanFault
          /\ \E e \in DropClientEnd(stream[c]) : stream' = [stream EXCEPT ![c] = e]
          /\ ClientReturn(c, "read_payload", ErrKey("Reading", "Payload"), "read_payload", TRUE)
    /\ UNCHANGED <<envVars, routes, history, serveVars, nsm, task>>

\* rmp_serde::from_slice(&response), and the return from send.
ClientDecode(c) ==
    /\ client[c].pc = "decode"
    /\ LET v == from_slice(ResponseType(client[c].request.t), client[c].response) IN
       IF v = DecodeError
       THEN ClientReturn(c, "decode", Err("Decoding"), "decode", FALSE)
       ELSE ClientReturn(c, "decode", Ok(v), "", FALSE)
    /\ \E e \in DropClientEnd(stream[c]) : stream' = [stream EXCEPT ![c] = e]
    /\ UNCHANGED <<envVars, routes, history, serveVars, nsm, task>>

\* The caller drops the send future while it waits at an await point.
ClientCancel(c) ==
    /\ client[c].pc \in {"write_type_id", "write_len", "write_payload", "read_len", "read_payload"}
    /\ CanFault
    /\ client' = [client EXCEPT ![c].pc = "done", ![c].result = Err("Cancelled"),
                                ![c].injected = TRUE]
    /\ faulty' = [faulty EXCEPT ![c] = TRUE]
    /\ faults' = faults + 1
    /\ \E e \in DropClientEnd(stream[c]) : stream' = [stream EXCEPT ![c] = e]
    /\ UNCHANGED <<envVars, routes, history, serveVars, nsm, task>>

\* ---------------------------------------------------------------- raw peer
\* A peer that does not run send: it connects, writes a route hash, a length
\* field and body bytes of its own choosing, and closes when it likes.
RawHashes == {type_id("Echo")}
\* 0, 3, 4, 2^32 and 2^63 as length fields.
RawLens == {as_u64(0), as_u64(3), as_u64(4), <<0, 1, 0, 0>>, <<32768, 0, 0, 0>>}
\* Nothing; an Echo; an Echo and one more byte; three bytes that are no Echo.
RawBodies ==
    {<<>>, to_vec([t |-> "Echo", message |-> <<65>>]),
     to_vec([t |-> "Echo", message |-> <<65>>]) \o <<7>>, <<193, 0, 0>>}
RawFrames ==
    {write_u32(h) \o write_u64(l) \o b : h \in RawHashes, l \in RawLens, b \in RawBodies}

RawConnect(c, bytes) ==
    /\ client[c].pc = "idle"
    /\ ListenerBound
    /\ client' = [client EXCEPT ![c].pc = "raw"]
    /\ stream' = [stream EXCEPT ![c].st = "pending", ![c].c2s = bytes]
    /\ UNCHANGED <<envVars, routes, history, serveVars, nsm, task, faulty, faults>>

RawClose(c) ==
    /\ client[c].pc = "raw"
    /\ client' = [client EXCEPT ![c].pc = "closed"]
    /\ stream' = [stream EXCEPT ![c].cShut = TRUE]
    /\ UNCHANGED <<envVars, routes, history, serveVars, nsm, task, faulty, faults>>

\* ------------------------------------------------------------------ router
\* (mutant: route() on a router that is being served)
RouteWhileServing(R, h) ==
    /\ Len(history) < MaxRoutes
    /\ routes' = RouterRoute(routes, R, h)
    /\ history' = Append(history, [R |-> R, handler |-> h])
    /\ UNCHANGED <<envVars, serveVars, nsm, client, task, stream, faulty, faults>>

\* Router::route::<R>(handler), while the router is being built: route and
\* serve take the router by value, so no route() call follows serve.
Route(R, h) ==
    /\ servePc = "building"
    /\ Len(history) < MaxRoutes
    /\ routes' = RouterRoute(routes, R, h)
    /\ history' = Append(history, [R |-> R, handler |-> h])
    /\ UNCHANGED <<envVars, serveVars, nsm, client, task, stream, faulty, faults>>

\* ------------------------------------------------------------------- serve
\* VsockListener::bind(...).map_err(Error::Bind)?
ServeBind ==
    /\ servePc = "building"
    /\ \/ /\ servePc' = IF nsm = "disabled" THEN "accept" ELSE "nsm"
          /\ UNCHANGED <<serveResult, serveFailure, faults>>
       \/ /\ CanFault
          /\ serveFailure' = "bind"
          /\ servePc' = "returned"
          /\ serveResult' = Err("Bind")
          /\ faults' = faults + 1
    /\ UNCHANGED <<envVars, routes, history, nsm, client, task, stream, faulty>>

\* (mutant: the global is set to the new module whatever it holds)
ServeNsmInitReplaces ==
    /\ servePc = "nsm"
    /\ \/ /\ servePc' = "accept"
          /\ nsm' = "init"
          /\ nsmTrace' = [connect |-> nsmTrace.connect + 1,
                          get_or_init |-> nsmTrace.get_or_init + 1]
          /\ UNCHANGED <<serveResult, serveFailure, faults, stream>>
       \/ /\ CanFault
          /\ serveFailure' = "nsm"
          /\ servePc' = "returned"
          /\ serveResult' = Err("NsmConnect")
          /\ faults' = faults + 1
          /\ stream' = DropListener(stream)
          /\ nsmTrace' = [nsmTrace EXCEPT !.connect = @ + 1]
          /\ UNCHANGED nsm
    /\ UNCHANGED <<hashVars, usizeBits, appState, routes, history, client, task, faulty>>

\* #[cfg(feature = "nsm")]: SecureModule::connect(), then
\* SECURE_MODULE_GLOBAL.get_or_init(..), which keeps what the global holds.
ServeNsmInit ==
    /\ servePc = "nsm"
    /\ \/ /\ servePc' = "accept"
          /\ nsm' = IF nsm = "uninit" THEN "init" ELSE nsm
          /\ nsmTrace' = [connect |-> nsmTrace.connect + 1,
                          get_or_init |-> nsmTrace.get_or_init + 1]
          /\ UNCHANGED <<serveResult, serveFailure, faults, stream>>
       \/ /\ CanFault
          /\ serveFailure' = "nsm"
          /\ servePc' = "returned"
          /\ serveResult' = Err("NsmConnect")
          /\ faults' = faults + 1
          /\ stream' = DropListener(stream)
          /\ nsmTrace' = [nsmTrace EXCEPT !.connect = @ + 1]
          /\ UNCHANGED nsm
    /\ UNCHANGED <<hashVars, usizeBits, appState, routes, history, client, task, faulty>>

\* (mutant: the task is spawned with a plain reference to the router serve
\* holds, not with a clone of the Arc)
ServeAcceptBorrowsRouter(c) ==
    /\ servePc = "accept"
    /\ stream[c].st = "pending"
    /\ \A d \in Conns : d < c => stream[d].st # "pending"
    /\ stream' = [stream EXCEPT ![c].st = "open"]
    /\ task' = [task EXCEPT ![c].pc = "read_type_id",
                            ![c].afterFailure = \E d \in Conns : TaskFailed(d)]
    /\ UNCHANGED <<envVars, routes, history, serveVars, nsm, client, faulty, faults>>

\* (mutant: the loop awaits the task of a connection before it accepts the
\* next one)
ServeAcceptAwaitsTask(c) ==
    /\ servePc = "accept"
    /\ stream[c].st = "pending"
    /\ \A d \in Conns : d < c => stream[d].st # "pending"
    /\ \A d \in Conns : task[d].pc \in {"none", "done"}
    /\ stream' = [stream EXCEPT ![c].st = "open"]
    /\ task' = [task EXCEPT ![c].pc = "read_type_id",
                            ![c].holdsRouter = TRUE,
                            ![c].afterFailure = \E d \in Conns : TaskFailed(d)]
    /\ UNCHANGED <<envVars, routes, history, serveVars, nsm, client, faulty, faults>>

\* listener.accept() succeeded: Stream::new, router.clone(), tokio::spawn.
\* The listener's queue is first in, first out.
ServeAccept(c) ==
    /\ servePc = "accept"
    /\ stream[c].st = "pending"
    /\ \A d \in Conns : d < c => stream[d].st # "pending"
    /\ stream' = [stream EXCEPT ![c].st = "open"]
    /\ task' = [task EXCEPT ![c].pc = "read_type_id",
                            ![c].holdsRouter = TRUE,
                            ![c].afterFailure = \E d \in Conns : TaskFailed(d)]
    /\ UNCHANGED <<envVars, routes, history, serveVars, nsm, client, faulty, faults>>

\* (mutant: the accept error is logged and the loop goes on)
ServeAcceptFailSwallowed ==
    /\ servePc = "accept"
    /\ CanFault
    /\ serveFailure' = "accept"
    /\ faults' = faults + 1
    /\ UNCHANGED <<envVars, routes, history, servePc, serveResult, nsm, client, task, stream, faulty>>

\* listener.accept().await.map_err(Error::Accept)?
ServeAcceptFail ==
    /\ servePc = "accept"
    /\ CanFault
    /\ serveFailure' = "accept"
    /\ servePc' = "returned"
    /\ serveResult' = Err("Accept")
    /\ faults' = faults + 1
    /\ stream' = DropListener(stream)
    /\ UNCHANGED <<envVars, routes, history, nsm, client, task, faulty>>

\* --------------------------------------------------------- connection task
\* (mutant: the connection is handled in the accept loop and its error is
\* returned from serve with `?`)
TaskReturnPropagates(c, step, res, injected) ==
    /\ task' = [task EXCEPT ![c].pc = "done", ![c].result = res,
                            ![c].steps = Append(@, step),
                            ![c].holdsRouter = FALSE, ![c].holdsState = FALSE]
    /\ faulty' = [faulty EXCEPT ![c] = @ \/ injected]
    /\ faults' = IF injected THEN faults + 1 ELSE faults
    /\ servePc' = IF res.kind = "Ok" THEN servePc ELSE "returned"
    /\ serveResult' = IF res.kind = "Ok" THEN serveResult ELSE res
    /\ UNCHANGED <<client, serveFailure>>

\* The spawned task ends with result res (an error is logged); its stream is
\* dropped.  Nothing of the task reaches the accept loop.
TaskReturn(c, step, res, injected) ==
    /\ task' = [task EXCEPT ![c].pc = "done", ![c].result = res,
                            ![c].steps = Append(@, step),
                            ![c].holdsRouter = FALSE, ![c].holdsState = FALSE]
    /\ faulty' = [faulty EXCEPT ![c] = @ \/ injected]
    /\ faults' = IF injected THEN faults + 1 ELSE faults
    /\ UNCHANGED <<client, serveVars>>

\* handle_alloc_error: the process aborts.  No task runs on (pc "aborted"),
\* no destructor runs, and the kernel closes every socket of the process.
ProcessAbort ==
    /\ servePc' = "aborted"
    /\ task' = [c \in Conns |->
                  IF task[c].pc \in {"none", "done"} THEN task[c]
                  ELSE [task[c] EXCEPT !.pc = "aborted"]]
    /\ stream' = [c \in Conns |->
                    IF stream[c].st = "pending"
                    THEN [stream[c] EXCEPT !.st = "reset", !.sShut = TRUE]
                    ELSE IF stream[c].st = "open" THEN [stream[c] EXCEPT !.sShut = TRUE]
                    ELSE stream[c]]
    /\ UNCHANGED <<serveResult, serveFailure, client, faulty, faults>>

\* What the task keeps of the bytes a read step returned.
TaskStore(t, step, b) ==
    CASE step = "read_type_id" -> [t EXCEPT !.pc = "lookup", !.type_id = read_u32(b)]
      [] step = "read_len"     -> [t EXCEPT !.pc = "read_payload", !.len = read_u64(b)]
      [] step = "read_payload" -> [t EXCEPT !.pc = "decode", !.payload = b]

\* (mutant: the read takes every byte that has arrived and keeps the first n)
TaskReadGreedy(c, step, n, key) ==
    LET s == stream[c] IN
    \/ /\ Avail(s.c2s, s.rd) >= n
       /\ task' = [task EXCEPT ![c] = [TaskStore(@, step, Take(s.c2s, s.rd, n))
                                          EXCEPT !.steps = Append(@, step)]]
       /\ stream' = [stream EXCEPT ![c].rd = Len(s.c2s)]
       /\ UNCHANGED <<client, faulty, faults, serveVars>>
    \/ /\ Avail(s.c2s, s.rd) < n
       /\ s.cShut
       /\ \E e \in DropServerEnd([stream[c] EXCEPT !.rd = Len(s.c2s)]) : stream' = [stream EXCEPT ![c] = e]
       /\ TaskReturn(c, step, ErrKey("Reading", key), FALSE)

\* (mutant: the end of the stream does not wake the read)
TaskReadBlocksAtEof(c, step, n, key) ==
    LET s == stream[c] IN
    \/ /\ Avail(s.c2s, s.rd) >= n
       /\ task' = [task EXCEPT ![c] = [TaskStore(@, step, Take(s.c2s, s.rd, n))
                                          EXCEPT !.steps = Append(@, step)]]
       /\ stream' = [stream EXCEPT ![c].rd = @ + n]
       /\ UNCHANGED <<client, faulty, faults, serveVars>>
    \/ /\ CanFault
       /\ \E e \in DropServerEnd(stream[c]) : stream' = [stream EXCEPT ![c] = e]
       /\ TaskReturn(c, step, ErrKey("Reading", key), TRUE)

\* A read of n bytes by the task: the bytes are there; or the peer end is
\* shut down before they are (unexpected EOF); or an injected I/O error.
TaskRead(c, step, n, key) ==
    LET s == stream[c] IN
    \/ /\ Avail(s.c2s, s.rd) >= n
       /\ task' = [task EXCEPT ![c] = [TaskStore(@, step, Take(s.c2s, s.rd, n))
                                          EXCEPT !.steps = Append(@, step)]]
       /\ stream' = [stream EXCEPT ![c].rd = @ + n]
       /\ UNCHANGED <<client, faulty, faults, serveVars>>
    \/ /\ Avail(s.c2s, s.rd) < n
       /\ s.cShut
       /\ \E e \in DropServerEnd([stream[c] EXCEPT !.rd = Len(s.c2s)]) : stream' = [stream EXCEPT ![c] = e]
       /\ TaskReturn(c, step, ErrKey("Reading", key), FALSE)
    \/ /\ CanFault
       /\ \E e \in DropServerEnd(stream[c]) : stream' = [stream EXCEPT ![c] = e]
       /\ TaskReturn(c, step, ErrKey("Reading", key), TRUE)

\* A write by the task, as ClientWrite.
TaskWrite(c, step, bytes, key, nextPc) ==
    \/ /\ stream' = [stream EXCEPT ![c].s2c = @ \o bytes]
       /\ task' = [task EXCEPT ![c].pc = nextPc, ![c].steps = Append(@, step)]
       /\ UNCHANGED <<client, faulty, faults, serveVars>>
    \/ /\ stream[c].cShut
       /\ \E e \in DropServerEnd(stream[c]) : stream' = [stream EXCEPT ![c] = e]
       /\ TaskReturn(c, step, ErrKey("Writing", key), FALSE)
    \/ /\ CanFault
       /\ \E k \in 0..(Len(bytes) - 1) :
            \E e \in DropServerEnd([stream[c] EXCEPT !.s2c = @ \o SubSeq(bytes, 1, k)]) : stream' = [stream EXCEPT ![c] = e]
       /\ TaskReturn(c, step, ErrKey("Writing", key), TRUE)

\* handle_connection: stream.read_u32()
TaskReadTypeId(c) ==
    /\ task[c].pc = "read_type_id"
    /\ TaskRead(c, "read_type_id", 4, "Length")
    /\ UNCHANGED <<envVars, routes, history, nsm>>

\* (mutant: a hash with no handler falls back to some registered handler)
TaskLookupFallback(c) ==
    /\ task[c].pc = "lookup"
    /\ LET found == HashMapGet(routes, task[c].type_id) IN
       \E e \in (IF found = {} THEN routes ELSE found) :
            task' = [task EXCEPT ![c].pc = "read_len", ![c].R = e.R,
                                 ![c].handler = e.handler,
                                 ![c].holdsState = TRUE,
                                 ![c].steps = Append(@, "lookup")]
    /\ UNCHANGED <<stream, client, faulty, faults, serveVars>>
    /\ UNCHANGED <<envVars, routes, history, nsm>>

\* handle_connection: router.routes.get(&type_id).ok_or_else(..)?, and
\* Arc::clone(&router.state) for the call of handler.handle.
TaskLookup(c) ==
    /\ task[c].pc = "lookup"
    /\ LET found == HashMapGet(routes, task[c].type_id) IN
       \/ /\ found = {}
          /\ \E e \in DropServerEnd(stream[c]) : stream' = [stream EXCEPT ![c] = e]
          /\ TaskReturn(c, "lookup", UnknownRequest(task[c].type_id), FALSE)
       \/ /\ \E e \in found :
                task' = [task EXCEPT ![c].pc = "read_len", ![c].R = e.R,
                                     ![c].handler = e.handler,
                                     ![c].holdsState = TRUE,
                                     ![c].steps = Append(@, "lookup")]
          /\ UNCHANGED <<stream, client, faulty, faults, serveVars>>
    /\ UNCHANGED <<envVars, routes, history, nsm>>

\* (mutant: a failure of the length read is reported as Reading(Payload))
TaskReadLenWrongKey(c) ==
    /\ task[c].pc = "read_len"
    /\ TaskRead(c, "read_len", 8, "Payload")
    /\ UNCHANGED <<envVars, routes, history, nsm>>

\* TypedHandler::handle: stream.read_u64()
TaskReadLen(c) ==
    /\ task[c].pc = "read_len"
    /\ TaskRead(c, "read_len", 8, "Length")
    /\ UNCHANGED <<envVars, routes, history, nsm>>

\* (mutant: read instead of read_exact: at the end of the stream the read
\* returns the bytes that came, and the task goes on with them)
TaskReadPayloadLenient(c) ==
    /\ task[c].pc = "read_payload"
    /\ LET s == stream[c]
           n == BufLen(task[c].len) IN
       \/ /\ Avail(s.c2s, s.rd) >= n
          /\ task' = [task EXCEPT ![c].pc = "decode", ![c].payload = Take(s.c2s, s.rd, n),
                                  ![c].steps = Append(@, "read_payload")]
          /\ stream' = [stream EXCEPT ![c].rd = @ + n]
       \/ /\ Avail(s.c2s, s.rd) < n
          /\ s.cShut
          /\ task' = [task EXCEPT ![c].pc = "decode",
                                  ![c].payload = Take(s.c2s, s.rd, Avail(s.c2s, s.rd)),
                                  ![c].steps = Append(@, "read_payload")]
          /\ stream' = [stream EXCEPT ![c].rd = Len(s.c2s)]
    /\ UNCHANGED <<client, faulty, faults, serveVars>>
    /\ UNCHANGED <<envVars, routes, history, nsm>>

\* TypedHandler::handle: stream.read_exact(len)
TaskReadPayload(c) ==
    /\ task[c].pc = "read_payload"
    /\ LET buf == read_exact_buf(task[c].len) IN
       \/ /\ buf = "InvalidInput"
          /\ \E e \in DropServerEnd(stream[c]) : stream' = [stream EXCEPT ![c] = e]
          /\ TaskReturn(c, "read_payload", ErrKey("Reading", "Payload"), FALSE)
       \/ /\ buf = "panic"
          /\ \E e \in DropServerEnd(stream[c]) : stream' = [stream EXCEPT ![c] = e]
          /\ TaskReturn(c, "read_payload", Panicked, FALSE)
       \/ /\ buf = "buffer"
          /\ AllocMayFail(task[c].len)
          /\ ProcessAbort
       \/ /\ buf = "buffer"
          /\ TaskRead(c, "read_payload", BufLen(task[c].len), "Payload")
    /\ UNCHANGED <<envVars, routes, history, nsm>>

\* (mutant: the payload buffer is shared by the tasks, a task decodes what
\* any task read)
TaskDecodeShared(c) ==
    /\ task[c].pc = "decode"
    /\ \E d \in Conns :
         /\ task[d].payload # <<>>
         /\ LET v == from_slice(task[c].R, task[d].payload) IN
            IF v = DecodeError
            THEN /\ \E e \in DropServerEnd(stream[c]) : stream' = [stream EXCEPT ![c] = e]
                 /\ TaskReturn(c, "decode", Err("Decoding"), FALSE)
            ELSE /\ task' = [task EXCEPT ![c].pc = "handler", ![c].request = v,
                                         ![c].steps = Append(@, "decode")]
                 /\ UNCHANGED <<stream, client, faulty, faults, serveVars>>
    /\ UNCHANGED <<envVars, routes, history, nsm>>

\* (mutant: a payload that does not decode is replaced by the default value
\* of the type, and the task goes on)
TaskDecodeOrDefault(c) ==
    /\ task[c].pc = "decode"
    /\ LET v == from_slice(task[c].R, task[c].payload)
           R == task[c].R
           default == IF R \in {"Echo", "Costarring", "Liquid"}
                      THEN [t |-> R, message |-> <<>>] ELSE [t |-> R] IN
       /\ task' = [task EXCEPT ![c].pc = "handler",
                               ![c].request = IF v = DecodeError THEN default ELSE v,
                               ![c].steps = Append(@, "decode")]
       /\ UNCHANGED <<stream, client, faulty, faults, serveVars>>
    /\ UNCHANGED <<envVars, routes, history, nsm>>

\* TypedHandler::handle: rmp_serde::from_slice(&payload)
TaskDecode(c) ==
    /\ task[c].pc = "decode"
    /\ LET v == from_slice(task[c].R, task[c].payload) IN
       IF v = DecodeError
       THEN /\ \E e \in DropServerEnd(stream[c]) : stream' = [stream EXCEPT ![c] = e]
            /\ TaskReturn(c, "decode", Err("Decoding"), FALSE)
       ELSE /\ task' = [task EXCEPT ![c].pc = "handler", ![c].request = v,
                                    ![c].steps = Append(@, "decode")]
            /\ UNCHANGED <<stream, client, faulty, faults, serveVars>>
    /\ UNCHANGED <<envVars, routes, history, nsm>>

\* (mutant: each dispatch clones the state, the handler gets a handle to the
\* copy)
TaskInvokeClonedState(c) ==
    /\ task[c].pc = "handler"
    /\ LET state == Len(appState) + 1 IN
       /\ task' = [task EXCEPT ![c].pc = "encode",
                               ![c].response = InvokeHandler(task[c].handler, task[c].request),
                               ![c].invoked = @ + 1,
                               ![c].steps = Append(@, "handler"),
                               ![c].state = state,
                               ![c].seen = appState[RouterState],
                               ![c].nsmSeen = nsm,
                               ![c].aliveSeen = StateAlive,
                               ![c].holdsState = FALSE]
       /\ appState' = Append(appState, appState[RouterState] + 1)
       /\ UNCHANGED <<stream, faulty, faults>>
    /\ UNCHANGED <<hashVars, usizeBits, nsmTrace, routes, history, serveVars, nsm, client>>

\* (mutant: the handler is called, and may be called once more)
TaskInvokeAgain(c) ==
    /\ task[c].pc = "handler"
    /\ LET state == ArcClone(RouterState) IN
       /\ \E next \in (IF task[c].invoked = 0 THEN {"handler", "encode"} ELSE {"encode"}) :
            task' = [task EXCEPT ![c].pc = next,
                                 ![c].response = InvokeHandler(task[c].handler, task[c].request),
                                 ![c].invoked = @ + 1,
                                 ![c].steps = Append(@, "handler"),
                                 ![c].state = state,
                                 ![c].seen = appState[state],
                                 ![c].nsmSeen = nsm,
                                 ![c].aliveSeen = StateAlive,
                                 ![c].holdsState = FALSE]
       /\ appState' = [appState EXCEPT ![state] = @ + 1]
       /\ UNCHANGED <<stream, faulty, faults>>
    /\ UNCHANGED <<hashVars, usizeBits, nsmTrace, routes, history, serveVars, nsm, client>>

\* TypedHandler::handle: (self.handler)(state, request).await, with the
\* state handle handle_connection made by Arc::clone(&router.state).  The
\* handler counts its calls in the state it is handed (fetch_add), and it
\* finds the secure-module global as it is at the call (try_global).  The
\* handler owns the state handle and drops it when it returns.  A handler
\* may panic: the task is unwound, its stream dropped.
TaskInvoke(c) ==
    /\ task[c].pc = "handler"
    /\ LET state == ArcClone(RouterState) IN
       \/ /\ task' = [task EXCEPT ![c].pc = "encode",
                                  ![c].response = InvokeHandler(task[c].handler, task[c].request),
                                  ![c].invoked = @ + 1,
                                  ![c].steps = Append(@, "handler"),
                                  ![c].state = state,
                                  ![c].seen = appState[state],
                                  ![c].nsmSeen = nsm,
                                  ![c].aliveSeen = StateAlive,
                                  ![c].holdsState = FALSE]
          /\ appState' = [appState EXCEPT ![state] = @ + 1]
          /\ UNCHANGED <<stream, faulty, faults>>
       \/ /\ CanFault
          /\ task' = [task EXCEPT ![c].pc = "done",
                                  ![c].result = Panicked,
                                  ![c].invoked = @ + 1,
                                  ![c].steps = Append(@, "handler"),
                                  ![c].state = state,
                                  ![c].seen = appState[state],
                                  ![c].nsmSeen = nsm,
                                  ![c].aliveSeen = StateAlive,
                                  ![c].holdsRouter = FALSE, ![c].holdsState = FALSE]
          /\ \E e \in DropServerEnd(stream[c]) : stream' = [stream EXCEPT ![c] = e]
          /\ faulty' = [faulty EXCEPT ![c] = TRUE]
          /\ faults' = faults + 1
          /\ UNCHANGED appState
    /\ UNCHANGED <<hashVars, usizeBits, nsmTrace, routes, history, serveVars, nsm, client>>

\* TypedHandler::handle: rmp_serde::to_vec(&response)
TaskEncode(c) ==
    /\ task[c].pc = "encode"
    /\ \/ /\ task' = [task EXCEPT ![c].pc = "write_len",
                                  ![c].response_bytes = to_vec(task[c].response),
                                  ![c].steps = Append(@, "encode")]
          /\ UNCHANGED <<stream, client, faulty, faults, serveVars>>
       \/ /\ CanFault
          /\ \E e \in DropServerEnd(stream[c]) : stream' = [stream EXCEPT ![c] = e]
          /\ TaskReturn(c, "encode", Err("Encoding"), TRUE)
    /\ UNCHANGED <<envVars, routes, history, nsm>>

\* (mutant: the response frame starts with the route hash of the request)
TaskWriteLenWithTypeId(c) ==
    /\ task[c].pc = "write_len"
    /\ TaskWrite(c, "write_len",
                 write_u32(task[c].type_id) \o write_u64(as_u64(Len(task[c].response_bytes))),
                 "Length", "write_payload")
    /\ UNCHANGED <<envVars, routes, history, nsm>>

\* TypedHandler::handle: stream.write_u64(response_bytes.len() as u64)
TaskWriteLen(c) ==
    /\ task[c].pc = "write_len"
    /\ TaskWrite(c, "write_len", write_u64(as_u64(Len(task[c].response_bytes))), "Length", "write_payload")
    /\ UNCHANGED <<envVars, routes, history, nsm>>

\* TypedHandler::handle: stream.write_all(&response_bytes), Ok(()), and the
\* end of the spawned task.
TaskWritePayload(c) ==
    /\ task[c].pc = "write_payload"
    /\ \/ /\ \E e \in DropServerEnd([stream[c] EXCEPT !.s2c = @ \o task[c].response_bytes]) : stream' = [stream EXCEPT ![c] = e]
          /\ TaskReturn(c, "write_payload", Ok([t |-> "Unit"]), FALSE)
       \/ /\ stream[c].cShut
          /\ \E e \in DropServerEnd(stream[c]) : stream' = [stream EXCEPT ![c] = e]
          /\ TaskReturn(c, "write_payload", ErrKey("Writing", "Payload"), FALSE)
       \/ /\ CanFault
          /\ \E k \in 0..(Len(task[c].response_bytes) - 1) :
               \E e \in DropServerEnd([stream[c] EXCEPT !.s2c = @ \o SubSeq(task[c].response_bytes, 1, k)]) : stream' = [stream EXCEPT ![c] = e]
          /\ TaskReturn(c, "write_payload", ErrKey("Writing", "Payload"), TRUE)
    /\ UNCHANGED <<envVars, routes, history, nsm>>

\* ------------------------------------------------------------ specification
ClientStep(c) ==
    \/ ClientWriteTypeId(c)
    \/ ClientEncode(c)
    \/ ClientWriteLen(c)
    \/ ClientWritePayload(c)
    \/ ClientReadLen(c)
    \/ ClientReadPayload(c)
    \/ ClientDecode(c)
    \/ ClientCancel(c)

TaskStep(c) ==
    \/ TaskReadTypeId(c)
    \/ TaskLookup(c)
    \/ TaskReadLen(c)
    \/ TaskReadPayload(c)
    \/ TaskDecode(c)
    \/ TaskInvoke(c)
    \/ TaskEncode(c)
    \/ TaskWriteLen(c)
    \/ TaskWritePayload(c)

ServeStep ==
    \/ ServeBind
    \/ ServeNsmInit
    \/ \E c \in Conns : ServeAccept(c)
    \/ ServeAcceptFail

\* The request types the example's client and an unregistered caller use.
ClientTypes == {"Echo", "HealthCheck", "Missing"}

Next ==
    \/ ServeStep
    \/ \E c \in Conns :
         \/ \E R \in ClientTypes : \E r \in RequestValues(R) : Send(c, R, r)
         \/ ClientStep(c)
         \/ TaskStep(c)

Spec == Init /\ [][Next]_vars

\* Router construction from Router::new() by any route() calls, then serve
\* and one connection.
NextRouter ==
    \/ \E R \in RequestTypes : \E h \in Handlers : Route(R, h)
    \/ ServeStep
    \/ \E R \in RequestTypes : \E r \in RequestValues(R) : Send(1, R, r)
    \/ ClientStep(1)
    \/ TaskStep(1)

SpecRouter == InitRouter /\ [][NextRouter]_vars

\* The example's server on a 32-bit or a 64-bit target, a raw peer on
\* connection 1 and send calls on the other connections.
InitRaw ==
    /\ routes = ExampleRouter
    /\ history = ExampleCalls
    /\ usizeBits \in {32, 64}
    /\ nsm = "uninit"
    /\ InitCommon
    /\ InitHashIdle

NextRaw ==
    \/ ServeStep
    \/ \E b \in RawFrames : RawConnect(1, b)
    \/ RawClose(1)
    \/ \E c \in Conns \ {1} :
         \/ \E r \in RequestValues("Echo") : Send(c, "Echo", r)
         \/ ClientStep(c)
    \/ \E c \in Conns : TaskStep(c)

SpecRaw == InitRaw /\ [][NextRaw]_vars

\* The example's main returns once serve has returned, and the runtime is
\* shut down with it: a task still in flight is dropped where it waits, its
\* stream and its handles with it.
TaskShutdown(c) ==
    /\ servePc = "returned"
    /\ task[c].pc \notin {"none", "done", "aborted"}
    /\ task' = [task EXCEPT ![c].pc = "done",
                            ![c].holdsRouter = FALSE, ![c].holdsState = FALSE]
    /\ \E e \in DropServerEnd(stream[c]) : stream' = [stream EXCEPT ![c] = e]
    /\ UNCHANGED <<envVars, routes, history, serveVars, nsm, client, faulty, faults>>

\* The example's server and its callers, to the end of the server process.
NextLifetime ==
    \/ Next
    \/ \E c \in Conns : TaskShutdown(c)

SpecLifetime == Init /\ [][NextLifetime]_vars

\* Scheduling.  The runtime polls the serve future and every spawned task
\* that can go on; a client process goes on with its send call; a raw peer
\* closes its socket in the end.  No failure and no cancellation is owed:
\* only steps that inject none are fair.
NoFault == faults' = faults

Fairness ==
    /\ WF_vars(ServeBind /\ NoFault)
    /\ WF_vars(ServeNsmInit /\ NoFault)
    /\ \A c \in Conns : WF_vars(ServeAccept(c))
    /\ \A c \in Conns : WF_vars(TaskStep(c) /\ NoFault)
    /\ \A c \in Conns \ {1} : WF_vars(ClientStep(c) /\ NoFault)
    /\ WF_vars(RawClose(1))

\* The example's server on a 64-bit target with the nsm feature on, a raw
\* peer and send calls, under fair scheduling.
InitLive ==
    /\ routes = ExampleRouter
    /\ history = ExampleCalls
    /\ usizeBits = 64
    /\ nsm = "uninit"
    /\ InitCommon
    /\ InitHashIdle

SpecLive == InitLive /\ [][NextRaw]_vars /\ Fairness

\* Request::type_id() for any ROUTE_ID: a request type with a route id drawn
\* from short ASCII strings and the ids in use, hashed once by the client
\* (in send) and once by the server (in route).
MaxIdLen == 3
\* NUL, '1', 'a', 'f', 'o', DEL
IdBytes == {0, 49, 97, 102, 111, 127}
RECURSIVE StringsUpTo(_)
StringsUpTo(n) ==
    IF n = 0 THEN {<<>>}
    ELSE LET shorter == StringsUpTo(n - 1) IN
         shorter \cup {Append(s, b) : s \in shorter, b \in IdBytes}
\* "foobar"
Foobar == <<102, 111, 111, 98, 97, 114>>
RouteIds ==
    (StringsUpTo(MaxIdLen) \ {<<>>}) \cup {ROUTE_ID(R) : R \in RequestTypes} \cup {Foobar}

InitHash ==
    /\ routes = {}
    /\ history = <<>>
    /\ usizeBits = 64
    /\ nsm = "disabled"
    /\ InitCommon
    /\ routeId \in RouteIds
    /\ computed = [client |-> NoHash, server |-> NoHash]

\* send: let type_id = R::type_id();
ClientTypeId ==
    /\ computed.client = NoHash
    /\ computed' = [computed EXCEPT !.client = fnv1a_hash_str_32(routeId)]
    /\ UNCHANGED <<routeId, usizeBits, nsmTrace, appState, routes, history, serveVars, nsm,
                   client, task, stream, faulty, faults>>

\* Router::route: let type_id = R::type_id();
ServerTypeId ==
    /\ computed.server = NoHash
    /\ computed' = [computed EXCEPT !.server = fnv1a_hash_str_32(routeId)]
    /\ UNCHANGED <<routeId, usizeBits, nsmTrace, appState, routes, history, serveVars, nsm,
                   client, task, stream, faulty, faults>>

NextHash ==
    \/ ClientTypeId
    \/ ServerTypeId

SpecHash == InitHash /\ [][NextHash]_vars

\* ------------------------------------------------------------------ claims
Registered(R) == \E e \in routes : e.R = R
Done(c) == client[c].pc = "done"
\* The connection was accepted and nothing was injected on it.
Clean(c) == stream[c].st = "open" /\ ~faulty[c]

\* The request frame of a request value on the wire.
RequestFrame(r) ==
    write_u32(type_id(r.t)) \o write_u64(as_u64(Len(to_vec(r)))) \o to_vec(r)

\* C1: round trip.  For a registered request type, when no I/O failure was
\* injected on the connection and the call has returned, send returned Ok(u)
\* where u is what the registered handler returned for the request the client
\* sent, whatever the other connections did.
C1_RoundTrip ==
    \A c \in Conns :
        (Done(c) /\ Clean(c) /\ Registered(client[c].request.t)) =>
            /\ task[c].invoked = 1
            /\ task[c].request = client[c].request
            /\ client[c].result = Ok(task[c].response)
            /\ \E e \in routes :
                 /\ e.R = client[c].request.t
                 /\ task[c].response = InvokeHandler(e.handler, client[c].request)

C1_Witness ==
    \E c, d \in Conns :
        /\ c # d
        /\ Done(c) /\ Clean(c) /\ client[c].request.t = "Echo"
        /\ client[c].result.kind = "Ok"
        /\ client[c].result.value.echoed = YouSaid \o client[c].request.message
        /\ Done(d) /\ client[d].result.kind # "Ok"

\* The order of the steps of send.
SendOrder ==
    <<"connect", "write_type_id", "encode", "write_len", "write_payload",
      "read_len", "read_payload", "decode">>

IsPrefix(p, q) == Len(p) <= Len(q) /\ p = SubSeq(q, 1, Len(p))

\* C2: the steps of send run in the order connect, write route hash, encode,
\* write length, write payload, read length, read payload, decode, on one
\* stream; a step runs only when every step before it has succeeded; and the
\* client reads (or waits to read) nothing before the whole request frame is
\* on the stream.
C2_StrictOrder ==
    \A c \in Conns :
        LET cl == client[c] IN
        /\ IsPrefix(cl.steps, SendOrder)
        /\ cl.failed # "" =>
              /\ cl.pc = "done"
              /\ cl.steps # <<>>
              /\ cl.steps[Len(cl.steps)] = cl.failed
        /\ (cl.pc \in {"read_len", "read_payload", "decode"} \/ stream[c].crd > 0) =>
              stream[c].c2s = RequestFrame(cl.request)
        /\ (cl.pc = "write_payload" \/ (cl.pc = "done" /\ cl.failed = "write_payload" /\ ~faulty[c])) =>
              stream[c].c2s = SubSeq(RequestFrame(cl.request), 1, 12)

C2_Witness ==
    \E c \in Conns :
        /\ Done(c)
        /\ client[c].steps = SendOrder
        /\ client[c].result.kind = "Ok"
        /\ stream[c].c2s = RequestFrame(client[c].request)

\* The error kind send returns when the named step fails.
ErrorOfStep(step) ==
    CASE step = "connect"       -> Err("Connection")
      [] step = "write_type_id" -> ErrKey("Writing", "Length")
      [] step = "encode"        -> Err("Encoding")
      [] step = "write_len"     -> ErrKey("Writing", "Length")
      [] step = "write_payload" -> ErrKey("Writing", "Payload")
      [] step = "read_len"      -> ErrKey("Reading", "Length")
      [] step = "read_payload"  -> ErrKey("Reading", "Payload")
      [] step = "decode"        -> Err("Decoding")

\* C3: when a step of send fails, send returns the error kind of that step
\* and the failing step is the last step it ran; send returns an error only
\* when a step failed.
C3_ErrorKinds ==
    \A c \in Conns :
        LET cl == client[c] IN
        /\ cl.failed # "" =>
              /\ cl.pc = "done"
              /\ cl.result = ErrorOfStep(cl.failed)
              /\ cl.steps = SubSeq(SendOrder, 1, Len(cl.steps))
              /\ cl.steps[Len(cl.steps)] = cl.failed
        /\ (cl.pc = "done" /\ cl.failed = "") => cl.result.kind \in {"Ok", "Cancelled"}
        /\ cl.pc # "done" => cl.result = NoResult

C3_Witness ==
    \E c \in Conns :
        /\ Done(c)
        /\ client[c].failed = "decode"
        /\ client[c].result = Err("Decoding")

\* The task has read a route hash and looked it up.
LookedUp(c) == \E i \in 1..Len(task[c].steps) : task[c].steps[i] = "lookup"

\* C4: a task that read a route hash with no registered handler ends with
\* UnknownRequest carrying the hash that is on the stream; it invoked no
\* handler, wrote no byte, read no byte beyond the four of the hash, and its
\* end of the stream is shut down.  A task ends with UnknownRequest only so.
C4_UnknownRequest ==
    \A c \in Conns :
        LET t == task[c] IN
        /\ (LookedUp(c) /\ HashMapGet(routes, t.type_id) = {}) =>
              /\ t.pc = "done"
              /\ t.result = UnknownRequest(read_u32(SubSeq(stream[c].c2s, 1, 4)))
        /\ t.result.kind = "UnknownRequest" =>
              /\ t.pc = "done"
              /\ HashMapGet(routes, t.result.type_id) = {}
              /\ t.result.type_id = type_id(client[c].request.t)
              /\ t.steps = <<"read_type_id", "lookup">>
              /\ t.invoked = 0
              /\ stream[c].s2c = <<>>
              /\ stream[c].rd = 4
              /\ stream[c].sShut

C4_Witness ==
    \E c \in Conns :
        /\ task[c].result = UnknownRequest(type_id("Missing"))
        /\ Len(stream[c].c2s) > 4
        /\ stream[c].sShut

\* C5 as stated: for an unregistered request type, send returns
\* Reading(Length), whatever the interleaving.
C5_AlwaysReadingLength ==
    \A c \in Conns :
        (Done(c) /\ Clean(c) /\ ~Registered(client[c].request.t)) =>
            client[c].result = ErrKey("Reading", "Length")

\* C5 amended: for an unregistered request type, send never returns Ok.  It
\* returns Reading(Length) when it wrote its whole frame; when the server
\* shut the stream down before the client had written the length or the
\* payload, that write fails and send returns Writing(Length) or
\* Writing(Payload).
C5_ReadingOrWriting ==
    \A c \in Conns :
        (Done(c) /\ Clean(c) /\ ~Registered(client[c].request.t)) =>
            \/ /\ client[c].result = ErrKey("Reading", "Length")
               /\ client[c].failed = "read_len"
               /\ stream[c].c2s = RequestFrame(client[c].request)
            \/ /\ client[c].result = ErrKey("Writing", "Length")
               /\ client[c].failed = "write_len"
               /\ task[c].result.kind = "UnknownRequest"
            \/ /\ client[c].result = ErrKey("Writing", "Payload")
               /\ client[c].failed = "write_payload"
               /\ task[c].result.kind = "UnknownRequest"

C5_Witness ==
    \E c \in Conns :
        /\ Done(c) /\ Clean(c) /\ client[c].request.t = "Missing"
        /\ client[c].result = ErrKey("Writing", "Payload")
        /\ task[c].result.kind = "UnknownRequest"

\* The first route() call that registered route hash k.
FirstCall(k) ==
    history[CHOOSE i \in 1..Len(history) :
                /\ type_id(history[i].R) = k
                /\ \A j \in 1..(i - 1) : type_id(history[j].R) # k]

\* C6 as stated: registering the same request type twice is rejected, the
\* second handler does not become the handler of the type.
C6_DuplicateRejected ==
    \A i, j \in 1..Len(history) :
        (i < j /\ history[i].R = history[j].R) =>
            \A e \in HashMapGet(routes, type_id(history[i].R)) :
                e.handler = FirstCall(e.key).handler

\* C7 as stated: registering a request type whose route id differs from a
\* registered one but has the same route hash is rejected, the first
\* registration stays in place.
C7_CollisionRejected ==
    \A i, j \in 1..Len(history) :
        (i < j /\ history[i].R # history[j].R
               /\ type_id(history[i].R) = type_id(history[j].R)) =>
            \A e \in HashMapGet(routes, type_id(history[i].R)) :
                e.R = FirstCall(e.key).R

\* C8: the router holds at most one handler per route hash, and every route
\* hash some route() call registered has a handler.
C8_OnePerHash ==
    /\ \A e1, e2 \in routes : e1.key = e2.key => e1 = e2
    /\ \A i \in 1..Len(history) : HashMapGet(routes, type_id(history[i].R)) # {}
    /\ \A e \in routes : \E i \in 1..Len(history) :
            e = [key |-> type_id(history[i].R), R |-> history[i].R, handler |-> history[i].handler]

C8_Witness ==
    /\ Len(history) = 2
    /\ history[1].R = history[2].R
    /\ history[1].handler # history[2].handler
    /\ Cardinality(routes) = 1
    /\ servePc = "accept"

\* The error serve returns for a failure of the listener or the module.
ServeErrorOf(f) ==
    CASE f = "bind"   -> Err("Bind")
      [] f = "nsm"    -> Err("NsmConnect")
      [] f = "accept" -> Err("Accept")

\* C9: serve has returned exactly when the bind, the secure-module init or an
\* accept failed, and then with that error; it never returns Ok; whatever
\* the connection tasks ended with, serve has not returned without such a
\* failure.
C9_ServeReturns ==
    /\ servePc = "returned" <=> serveFailure # ""
    /\ serveFailure # "" => serveResult = ServeErrorOf(serveFailure)
    /\ serveFailure = "" => serveResult = NoResult
    /\ serveResult.kind \in {"None", "Bind", "NsmConnect", "Accept"}
    /\ serveFailure = "nsm" => nsm # "disabled"

C9_Witness ==
    /\ servePc = "returned"
    /\ serveResult = Err("Accept")
    /\ \E c \in Conns : TaskFailed(c) /\ task[c].result.kind = "UnknownRequest"

\* What send returns on a connection on which nothing else happens.
AloneOutcomes(r) ==
    IF Registered(r.t)
    THEN {Ok(InvokeHandler((CHOOSE e \in routes : e.R = r.t).handler, r))}
    ELSE {ErrKey("Reading", "Length"), ErrKey("Writing", "Length"), ErrKey("Writing", "Payload")}

\* C10: when a connection task has failed, every other connection on which
\* no failure was injected still gets the outcome it gets alone, whether it
\* was accepted before or after the failure; and the accept loop goes on:
\* serve has not returned unless the listener or the module failed.
C10_TaskFailureIsolated ==
    \A c \in Conns :
        TaskFailed(c) =>
            /\ \A d \in Conns \ {c} :
                 (Done(d) /\ Clean(d)) => client[d].result \in AloneOutcomes(client[d].request)
            /\ serveFailure = "" => (servePc = "accept" /\ serveResult = NoResult)

C10_Witness ==
    \E c, d \in Conns :
        /\ c # d
        /\ TaskFailed(c) /\ task[c].result = ErrKey("Reading", "Payload")
        /\ task[d].afterFailure
        /\ Done(d) /\ Clean(d) /\ client[d].result.kind = "Ok"

\* What a task that ended in the named step ended with.
TaskResultOfStep(c, step) ==
    CASE step = "read_type_id"  -> {ErrKey("Reading", "Length")}
      [] step = "lookup"        -> {UnknownRequest(task[c].type_id)}
      [] step = "read_len"      -> {ErrKey("Reading", "Length")}
      [] step = "read_payload"  -> {ErrKey("Reading", "Payload"), Panicked}
      [] step = "decode"        -> {Err("Decoding")}
      [] step = "handler"       -> {Panicked}
      [] step = "encode"        -> {Err("Encoding")}
      [] step = "write_len"     -> {ErrKey("Writing", "Length")}
      [] step = "write_payload" -> {ErrKey("Writing", "Payload"), Ok([t |-> "Unit"])}

\* C11: scoped release.  A send call that had a stream and has returned (with
\* Ok, with any error, or cancelled) has shut its end of the stream down, and
\* so has every connection task that has ended (with Ok, with any error, or
\* by a panic); no end is released without the shutdown call of its Drop.
\* Whatever that shutdown call returned, the call's result is the primary
\* one: the error of the step that failed, or Ok with the decoded response;
\* for a task, the result of its last step.
C11_ScopedRelease ==
    \A c \in Conns :
        LET cl == client[c]
            t == task[c]
            s == stream[c] IN
        /\ (cl.pc = "done" /\ cl.failed # "connect") => (s.cShut /\ s.cSd # "none")
        /\ (cl.pc = "done") => (s.cShut => s.cSd # "none")
        /\ t.pc = "done" => (s.sShut /\ s.sSd # "none")
        /\ (s.st = "open" /\ s.sShut) => (t.pc = "done" /\ s.sSd # "none")
        /\ (cl.pc = "done" /\ cl.failed # "") => cl.result = ErrorOfStep(cl.failed)
        /\ (cl.pc = "done" /\ cl.failed = "" /\ cl.result.kind # "Cancelled") =>
              cl.result = Ok(from_slice(ResponseType(cl.request.t), cl.response))
        /\ t.pc = "done" => t.result \in TaskResultOfStep(c, t.steps[Len(t.steps)])
        /\ cl.result.kind \in {"None", "Ok", "Connection", "Writing", "Encoding", "Reading",
                                "Decoding", "Cancelled"}

C11_Witness ==
    \E c, d \in Conns :
        /\ c # d
        /\ task[c].result = Panicked /\ stream[c].sShut
        /\ Done(c) /\ client[c].result = ErrKey("Reading", "Length")
        /\ stream[c].cSd = "failed"
        /\ Done(d) /\ client[d].result.kind = "Ok" /\ stream[d].cSd = "failed"

\* The length field 2^63.
OversizeLen == <<32768, 0, 0, 0>>

\* C12 as stated: a connection task that read a registered route hash and
\* then the length 2^63 ends with Reading(Payload), without a buffer of that
\* size, without invoking the handler and without writing a byte, and its
\* end of the stream is shut down; a send call on another connection still
\* gets its response.
C12_OversizeRejected ==
    \A c \in Conns :
        (task[c].len = OversizeLen /\ task[c].pc \notin {"read_payload", "aborted"}) =>
            /\ task[c].pc = "done"
            /\ task[c].result = ErrKey("Reading", "Payload")
            /\ task[c].invoked = 0
            /\ stream[c].s2c = <<>>
            /\ stream[c].sShut
            /\ \A d \in Conns \ {c} :
                 (Done(d) /\ Clean(d)) => client[d].result \in AloneOutcomes(client[d].request)

\* A length no in-memory buffer of the target can have: it does not fit
\* usize, or it is above isize::MAX.
Unaddressable(v) == ~usize_try_from(v).ok \/ CapacityOverflow(v)

\* The task has gone through its read_exact call (it returned or failed).
PastReadExact(c) ==
    \E i \in 1..Len(task[c].steps) : task[c].steps[i] = "read_payload"

\* C13 as stated: read_exact(n) in a connection task returns a buffer of
\* exactly n bytes or fails with a reading error: for a length no buffer of
\* the target can have it fails with Reading(Payload) before it read a byte
\* of the payload, and when the stream ends before n bytes came it fails
\* with Reading(Payload); it never returns fewer bytes than n.
C13_ReadExactOrError ==
    \A c \in Conns :
        PastReadExact(c) =>
            LET t == task[c] IN
            /\ Unaddressable(t.len) =>
                  /\ t.result = ErrKey("Reading", "Payload")
                  /\ stream[c].rd = 12
            /\ (t.steps[Len(t.steps)] = "read_payload" /\ t.pc = "done") =>
                  t.result = ErrKey("Reading", "Payload")
            /\ ~(t.steps[Len(t.steps)] = "read_payload" /\ t.pc = "done") =>
                  /\ ~Unaddressable(t.len)
                  /\ Len(t.payload) = BufLen(t.len)
                  /\ t.payload = SubSeq(stream[c].c2s, 13, 12 + BufLen(t.len))

\* The response frame of a response value on the wire.
ResponseFrame(u) == write_u64(as_u64(Len(to_vec(u)))) \o to_vec(u)

\* How often a step occurs among the steps of a call.
Count(steps, step) == Cardinality({i \in 1..Len(steps) : steps[i] = step})

\* C14: one call, one stream.  The stream of a call is untouched until the
\* call opens it and a call connects exactly once; the bytes from client to
\* server are (a prefix of) the one request frame of that call, the bytes
\* from server to client are (a prefix of) one response frame, length and
\* payload and nothing else, written only after the whole request frame was
\* read; a call that returned Ok leaves exactly one frame in each direction.
C14_OneCallOneStream ==
    \A c \in Conns :
        LET cl == client[c]
            s == stream[c] IN
        /\ cl.pc = "idle" => (s = StreamInit /\ task[c] = TaskInit)
        /\ cl.pc # "idle" => Count(cl.steps, "connect") = 1
        /\ s.st = "none" => (s.c2s = <<>> /\ s.s2c = <<>>)
        /\ cl.pc # "idle" => IsPrefix(s.c2s, RequestFrame(cl.request))
        /\ s.s2c # <<>> =>
              /\ s.c2s = RequestFrame(cl.request)
              /\ s.rd = Len(s.c2s)
              /\ task[c].invoked = 1
              /\ IsPrefix(s.s2c, ResponseFrame(task[c].response))
        /\ cl.result.kind = "Ok" =>
              /\ s.c2s = RequestFrame(cl.request)
              /\ s.s2c = ResponseFrame(cl.result.value)
              /\ s.crd = Len(s.s2c)

C14_Witness ==
    \E c, d \in Conns :
        /\ c # d
        /\ client[c].result.kind = "Ok" /\ client[d].result.kind = "Ok"
        /\ client[c].request # client[d].request
        /\ stream[c].s2c = ResponseFrame(client[c].result.value)
        /\ stream[d].s2c = ResponseFrame(client[d].result.value)

\* The response the example's server computes from a request.
OwnResponse(r) == InvokeHandler((CHOOSE e \in routes : e.R = r.t).handler, r)

\* C15: concurrent calls.  For two connections whose calls carry distinct
\* requests of registered types, at every moment the bytes the server has
\* written to a connection are a prefix of the response frame computed from
\* that connection's own request, and a call that has returned on a
\* connection without injected failure returned Ok with the response to its
\* own request, which is not the response to the other one.
C15_ConcurrentCalls ==
    \A c, d \in Conns :
        (/\ c # d
         /\ client[c].pc # "idle" /\ client[d].pc # "idle"
         /\ Registered(client[c].request.t) /\ Registered(client[d].request.t)
         /\ client[c].request # client[d].request) =>
            /\ IsPrefix(stream[c].s2c, ResponseFrame(OwnResponse(client[c].request)))
            /\ OwnResponse(client[c].request) # OwnResponse(client[d].request)
            /\ stream[c].s2c # ResponseFrame(OwnResponse(client[d].request))
            /\ task[c].invoked > 0 => task[c].request = client[c].request
            /\ (Done(c) /\ Clean(c)) =>
                  /\ client[c].result = Ok(OwnResponse(client[c].request))
                  /\ client[c].result # Ok(OwnResponse(client[d].request))

\* Both calls are in flight at once, each with its whole response written.
C15_Witness ==
    \E c, d \in Conns :
        /\ c # d
        /\ client[c].request.t = "Echo" /\ client[d].request.t = "Echo"
        /\ client[c].request.message # client[d].request.message
        /\ client[c].pc = "read_len" /\ client[d].pc = "read_len"
        /\ stream[c].s2c = ResponseFrame(OwnResponse(client[c].request))
        /\ stream[d].s2c = ResponseFrame(OwnResponse(client[d].request))

\* The global holds a module.
NsmInitialised == nsm \in {"init", "earlier"}

C16_State ==
    /\ nsmTrace.connect <= 1
    /\ nsmTrace.get_or_init <= nsmTrace.connect
    /\ nsm = "disabled" => (nsmTrace.connect = 0 /\ servePc # "nsm")
    /\ servePc \in {"building", "nsm"} =>
          /\ nsmTrace.connect = 0
          /\ nsm # "init"
          /\ \A c \in Conns : stream[c].st \notin {"open"} /\ task[c] = TaskInit
    /\ serveFailure = "bind" => nsmTrace.connect = 0
    /\ (servePc = "accept" /\ nsm # "disabled") =>
          (nsmTrace.connect = 1 /\ nsmTrace.get_or_init = 1 /\ NsmInitialised)
    /\ serveFailure = "nsm" =>
          /\ serveResult = Err("NsmConnect")
          /\ nsmTrace.connect = 1 /\ nsmTrace.get_or_init = 0
          /\ nsm # "init"
          /\ \A c \in Conns : stream[c].st # "open" /\ task[c] = TaskInit
    /\ \A c \in Conns :
          (task[c].invoked > 0 /\ nsm # "disabled") =>
              (task[c].nsmSeen = nsm /\ NsmInitialised)

\* C16: with the nsm feature on, serve calls SecureModule::connect exactly
\* once, after the bind and before any accept; when it fails serve returns
\* NsmConnect and no connection was accepted; when it succeeds the global
\* holds a module from then on, a module the global holds is never replaced,
\* and every handler invocation finds the global initialised, with the
\* module it still holds.
C16_NsmInitOnce ==
    /\ []C16_State
    /\ [][NsmInitialised => nsm' = nsm]_vars

C16_Witness ==
    /\ nsm = "init"
    /\ nsmTrace = [connect |-> 1, get_or_init |-> 1]
    /\ \E c, d \in Conns :
          /\ c # d
          /\ task[c].invoked = 1 /\ task[c].nsmSeen = "init"
          /\ task[d].invoked = 1 /\ task[d].nsmSeen = "init"

C17_State ==
    \A c \in Conns :
        (LookedUp(c) /\ task[c].handler # "") =>
            /\ servePc # "building"
            /\ HashMapGet(routes, task[c].type_id) =
                   {[key |-> task[c].type_id, R |-> task[c].R, handler |-> task[c].handler]}

\* C17: once serve has begun, no step (of the accept loop, of a connection
\* task, of a client) changes the route map or adds a registration, and the
\* handler a connection task dispatched to is the one the route map holds
\* for the route hash the task read.
C17_RouterImmutable ==
    /\ []C17_State
    /\ [][servePc # "building" => (routes' = routes /\ history' = history)]_vars

C17_Witness ==
    /\ servePc \in {"accept", "returned"}
    /\ Cardinality(routes) = 2
    /\ \E c \in Conns : task[c].invoked = 1 /\ task[c].handler = "h2"

\* The connections whose handler was called and returned.
Handled == {c \in Conns : task[c].invoked > 0 /\ task[c].result # Panicked}

\* C18: state sharing.  There is one application state value, the one the
\* router was constructed with; every handler invocation was handed a handle
\* to it; and a change a handler made through its handle is seen by the
\* handlers of the other connections: the state holds the changes of all
\* handlers that returned, and no two of them saw the same value.
C18_StateShared ==
    /\ Len(appState) = 1
    /\ \A c \in Conns : task[c].invoked > 0 => task[c].state = RouterState
    /\ appState[RouterState] = Cardinality(Handled)
    /\ \A c, d \in Handled : c # d => task[c].seen # task[d].seen
    /\ \A c \in Handled : task[c].seen < appState[RouterState]

\* The handler of one connection ran while the other connection was being
\* served, and the other's handler then saw its change.
C18_Witness ==
    \E c, d \in Conns :
        /\ c # d
        /\ task[c].invoked = 1 /\ task[c].seen = 1
        /\ task[d].invoked = 1 /\ task[d].seen = 0
        /\ task[c].pc = "encode" /\ task[d].pc = "write_len"
        /\ appState = <<2>>

\* The caller dropped the send future of the connection.
Cancelled(c) == client[c].result.kind = "Cancelled"
\* The whole request frame of the call is on the stream.
FrameComplete(c) == stream[c].c2s = RequestFrame(client[c].request)

LenField(buf, from) == BufLen(read_u64(SubSeq(buf, from + 1, from + 8)))

\* C20: frame exactness.  A connection task has consumed 4 bytes once it has
\* the route hash, 12 once it has the length, and 12 + len once it has the
\* payload, len the value of the length field on the stream, and never
\* more, whatever follows the frame on the stream; it has emitted 8 bytes
\* after writing the length and 8 + len' when it ended with Ok, len' the
\* value of the length field it wrote.  A send call has emitted 12 + len
\* bytes when it starts to read, and has consumed 8 bytes once it has the
\* response length and 8 + len' when it returned Ok.
C20_FrameExact ==
    \A c \in Conns :
        LET t == task[c]
            cl == client[c]
            s == stream[c] IN
        /\ t.pc \in {"none", "read_type_id"} => s.rd = 0
        /\ t.pc \in {"lookup", "read_len"} => s.rd = 4
        /\ t.pc = "read_payload" => s.rd = 12
        /\ (t.pc \in {"decode", "handler", "encode", "write_len", "write_payload"}
              \/ t.result.kind = "Ok") =>
              /\ s.rd = 12 + LenField(s.c2s, 4)
              /\ Len(t.payload) = LenField(s.c2s, 4)
              /\ s.rd <= Len(s.c2s)
        /\ t.pc \in {"none", "read_type_id", "lookup", "read_len", "read_payload", "decode",
                      "handler", "encode", "write_len"} => s.s2c = <<>>
        /\ t.pc = "write_payload" => Len(s.s2c) = 8
        /\ t.result.kind = "Ok" =>
              /\ Len(s.s2c) = 8 + LenField(s.s2c, 0)
              /\ SubSeq(s.s2c, 9, Len(s.s2c)) = t.response_bytes
        /\ cl.pc \in {"idle", "write_type_id", "encode", "write_len", "write_payload", "read_len"} =>
              s.crd = 0
        /\ cl.pc = "read_len" => Len(s.c2s) = 12 + LenField(s.c2s, 4)
        /\ cl.pc = "read_payload" => s.crd = 8
        /\ (cl.pc = "decode" \/ cl.result.kind = "Ok") =>
              /\ Len(s.c2s) = 12 + LenField(s.c2s, 4)
              /\ s.crd = 8 + LenField(s.s2c, 0)
              /\ s.crd = Len(s.s2c)

\* A task ended with Ok on a stream that holds a byte beyond the request
\* frame, and a send call returned Ok.
C20_Witness ==
    \E c, d \in Conns :
        /\ task[c].result.kind = "Ok"
        /\ Len(stream[c].c2s) = 12 + LenField(stream[c].c2s, 4) + 1
        /\ stream[c].rd = Len(stream[c].c2s) - 1
        /\ client[d].result.kind = "Ok"

\* The w bytes of the number n, most significant first.
RECURSIVE BeBytes(_, _)
BeBytes(n, w) == IF w = 0 THEN <<>> ELSE BeBytes(n \div 256, w - 1) \o <<n % 256>>

\* The steps a call or a task has completed include the named one.
Ran(steps, step) == \E i \in 1..Len(steps) : steps[i] = step

\* C21: wire format.  Once send has written the route hash, the first four
\* bytes of the stream are the hash, most significant byte first; once it has
\* written the length, the next eight bytes are the number of bytes of the
\* encoded request, most significant byte first; once it has written the
\* payload, exactly that many bytes follow, the encoded request, and nothing
\* else.  The bytes a task has written are eight bytes, the number of bytes of
\* the encoded response, most significant byte first, then exactly that many
\* bytes, the encoded response; at every moment each direction holds a prefix
\* of these frames.
C21_WireFormat ==
    \A c \in Conns :
        LET cl == client[c]
            t == task[c]
            s == stream[c]
            req == to_vec(cl.request)
            hash == BeBytes(type_id(cl.request.t)[1], 2) \o BeBytes(type_id(cl.request.t)[2], 2) IN
        /\ cl.pc # "idle" => IsPrefix(s.c2s, hash \o BeBytes(Len(req), 8) \o req)
        /\ cl.pc \in {"encode", "write_len"} => s.c2s = hash
        /\ cl.pc = "write_payload" => s.c2s = hash \o BeBytes(Len(req), 8)
        /\ (cl.pc \in {"read_len", "read_payload", "decode"} \/ Ran(cl.steps, "read_len")) =>
              /\ SubSeq(s.c2s, 1, 4) = hash
              /\ SubSeq(s.c2s, 5, 12) = BeBytes(Len(s.c2s) - 12, 8)
              /\ SubSeq(s.c2s, 13, Len(s.c2s)) = req
        /\ t.response_bytes # <<>> =>
              /\ t.response_bytes = to_vec(t.response)
              /\ IsPrefix(s.s2c, BeBytes(Len(t.response_bytes), 8) \o t.response_bytes)
        /\ t.response_bytes = <<>> => s.s2c = <<>>
        /\ t.pc = "write_payload" => s.s2c = BeBytes(Len(t.response_bytes), 8)
        /\ t.result.kind = "Ok" =>
              /\ SubSeq(s.s2c, 1, 8) = BeBytes(Len(s.s2c) - 8, 8)
              /\ SubSeq(s.s2c, 9, Len(s.s2c)) = to_vec(t.response)
              /\ Len(s.s2c) > 8

\* An Echo call and a HealthCheck call both went through: frames of two
\* lengths in each direction.
C21_Witness ==
    \E c, d \in Conns :
        /\ client[c].request.t = "Echo" /\ client[d].request.t = "HealthCheck"
        /\ client[c].result.kind = "Ok" /\ client[d].result.kind = "Ok"
        /\ task[c].result.kind = "Ok" /\ task[d].result.kind = "Ok"
        /\ Len(stream[c].c2s) = 15 /\ Len(stream[d].c2s) = 13
        /\ Len(stream[c].s2c) > Len(stream[d].s2c)

\* a xor b on bytes, bit by bit.
XorByte(a, b) ==
    LET bit(x, i) == (x \div (2 ^ i)) % 2 IN
    ((bit(a, 0) + bit(b, 0)) % 2) + 2 * ((bit(a, 1) + bit(b, 1)) % 2)
    + 4 * ((bit(a, 2) + bit(b, 2)) % 2) + 8 * ((bit(a, 3) + bit(b, 3)) % 2)
    + 16 * ((bit(a, 4) + bit(b, 4)) % 2) + 32 * ((bit(a, 5) + bit(b, 5)) % 2)
    + 64 * ((bit(a, 6) + bit(b, 6)) % 2) + 128 * ((bit(a, 7) + bit(b, 7)) % 2)

\* One round of FNV-1a on a hash held as four bytes, least significant
\* first: xor the byte in, then multiply by 0x01000193 = 2^24 + 0x193
\* modulo 2^32.
FnvRound(h, b) ==
    LET x0 == XorByte(h[1], b)
        c0 == x0 * 403
        c1 == h[2] * 403 + (c0 \div 256)
        c2 == h[3] * 403 + (c1 \div 256)
        c3 == h[4] * 403 + (c2 \div 256) + x0
    IN  <<c0 % 256, c1 % 256, c2 % 256, c3 % 256>>

RECURSIVE FnvBytes(_, _)
FnvBytes(h, s) == IF s = <<>> THEN h ELSE FnvBytes(FnvRound(h, Head(s)), Tail(s))

\* FNV-1a 32 of s from the offset basis 0x811C9DC5, as <<hi16, lo16>>.
Fnv1a32(s) ==
    LET h == FnvBytes(<<197, 157, 28, 129>>, s) IN
    <<h[4] * 256 + h[3], h[2] * 256 + h[1]>>

\* C22: the hash type_id() returns for a route id is the 32-bit FNV-1a hash
\* of its bytes (offset basis 0x811C9DC5, prime 0x01000193, modulo 2^32):
\* it is that value in the client and in the server, so both hold the same
\* value for the same route id; it is a 32-bit value; and it is the
\* published value for "a" (0xE40C292C) and "foobar" (0xBF9CF968).
C22_RouteHash ==
    /\ computed.client # NoHash =>
          /\ computed.client = Fnv1a32(routeId)
          /\ computed.client[1] \in 0..65535 /\ computed.client[2] \in 0..65535
    /\ computed.server # NoHash => computed.server = Fnv1a32(routeId)
    /\ (computed.client # NoHash /\ computed.server # NoHash) =>
          computed.client = computed.server
    /\ (computed.client # NoHash /\ routeId = <<97>>) => computed.client = <<58380, 10540>>
    /\ (computed.server # NoHash /\ routeId = Foobar) => computed.server = <<49052, 63848>>

\* Client and server have both hashed "echo_v1", to 0x7FBBCCAC.
C22_Witness ==
    /\ routeId = ROUTE_ID("Echo")
    /\ computed.client = <<32699, 52396>>
    /\ computed.server = <<32699, 52396>>

\* The client end of the connection was closed by a failure or a
\* cancellation on the client side (a write that failed part-way, a failed
\* encode, a dropped future) after the route hash went out and before the
\* whole request frame did, and the connection task has ended.
DroppedMidWrite(c) ==
    /\ client[c].pc = "done" /\ client[c].injected
    /\ faults = 1
    /\ stream[c].cShut
    /\ Len(stream[c].c2s) >= 4 /\ ~FrameComplete(c)
    /\ task[c].pc = "done"

\* C23 as stated: when the client closed the stream after the route hash of a
\* registered type and before the whole frame, the connection task ends with
\* Reading(Payload), the handler not invoked, no reply written.
C23_DropIsReadingPayload ==
    \A c \in Conns :
        (DroppedMidWrite(c) /\ Registered(client[c].request.t)) =>
            /\ task[c].result = ErrKey("Reading", "Payload")
            /\ task[c].invoked = 0
            /\ stream[c].s2c = <<>>

\* C23 amended: when the client closed the stream after the route hash and
\* before the whole frame, the connection task ends without invoking the
\* handler and without writing a byte, its end of the stream shut down: with
\* Reading(Length) when fewer than the 12 bytes of hash and length came,
\* with Reading(Payload) when they came and the payload did not, and with
\* UnknownRequest when the route hash is not registered.
C23_DropOutcome ==
    \A c \in Conns :
        DroppedMidWrite(c) =>
            /\ task[c].invoked = 0
            /\ stream[c].s2c = <<>>
            /\ stream[c].sShut
            /\ task[c].result =
                  IF ~Registered(client[c].request.t)
                  THEN UnknownRequest(type_id(client[c].request.t))
                  ELSE IF Len(stream[c].c2s) < 12 THEN ErrKey("Reading", "Length")
                  ELSE ErrKey("Reading", "Payload")

\* The payload write of an Echo call failed after two of its three bytes.
C23_Witness ==
    \E c \in Conns :
        /\ DroppedMidWrite(c)
        /\ client[c].failed = "write_payload"
        /\ Len(stream[c].c2s) = 14
        /\ task[c].result = ErrKey("Reading", "Payload")
        /\ stream[c].rd = 14

\* The connection task read the whole request, called the handler, and ended
\* before the whole response frame was written (the handler panicked, the
\* encode failed, or a write failed part-way): its end of the stream is
\* closed with less than a response frame on it.
ServerDroppedMidWrite(c) ==
    /\ task[c].pc = "done"
    /\ task[c].invoked = 1
    /\ task[c].result.kind # "Ok"
    /\ stream[c].sShut

\* C24: when the server end was closed before the whole response frame was
\* written and the call has returned by itself, send returned Reading(Length)
\* if fewer than 8 bytes came and Reading(Payload) if the 8 length bytes came
\* and fewer payload bytes than they announce; it consumed what came; and a
\* call that returned Ok has read a whole response frame, from a task that
\* wrote all of it.
C24_ServerDropOutcome ==
    \A c \in Conns :
        LET cl == client[c]
            s == stream[c] IN
        /\ (ServerDroppedMidWrite(c) /\ Done(c) /\ ~cl.injected) =>
              /\ Len(s.s2c) < 8 =>
                    /\ cl.result = ErrKey("Reading", "Length")
                    /\ cl.failed = "read_len"
              /\ Len(s.s2c) >= 8 =>
                    /\ cl.result = ErrKey("Reading", "Payload")
                    /\ cl.failed = "read_payload"
                    /\ Len(s.s2c) - 8 < BufLen(cl.len)
                    /\ cl.len = as_u64(Len(task[c].response_bytes))
              /\ s.crd = Len(s.s2c)
              /\ cl.response = <<>>
        /\ cl.result.kind = "Ok" =>
              /\ task[c].result.kind = "Ok"
              /\ Len(s.s2c) = 8 + BufLen(cl.len)
              /\ cl.response = task[c].response_bytes
              /\ cl.result.value = task[c].response

\* The payload write of a task failed after at least one byte of the
\* payload, and the call returned Reading(Payload).
C24_Witness ==
    \E c \in Conns :
        /\ ServerDroppedMidWrite(c)
        /\ task[c].result = ErrKey("Writing", "Payload")
        /\ Len(stream[c].s2c) > 8
        /\ Done(c) /\ ~client[c].injected
        /\ client[c].result = ErrKey("Reading", "Payload")

\* C25: a connection task that ended with a Reading, Decoding or Encoding
\* error wrote no byte, and its end of the stream is shut down.  When the
\* peer closed with fewer than the 4 bytes of the route hash on the stream,
\* the task ended at its first read with a reading error; when the payload
\* the task read is not a value of the request type, the task ended with
\* Decoding, and it ends with Decoding only so; in both cases no handler was
\* invoked.
C25_SilentClose ==
    \A c \in Conns :
        LET t == task[c]
            s == stream[c] IN
        /\ (t.pc = "done" /\ t.result.kind \in {"Reading", "Decoding", "Encoding"}) =>
              /\ s.s2c = <<>>
              /\ s.sShut
              /\ t.response_bytes = <<>>
        /\ (t.pc = "done" /\ t.result.kind \in {"Reading", "Decoding"}) => t.invoked = 0
        /\ (t.pc = "done" /\ s.cShut /\ Len(s.c2s) < 4) =>
              /\ t.result = ErrKey("Reading", "Length")
              /\ t.steps = <<"read_type_id">>
              /\ t.invoked = 0 /\ s.s2c = <<>> /\ s.sShut
        /\ (Ran(t.steps, "decode") /\ from_slice(t.R, t.payload) = DecodeError) =>
              /\ t.pc = "done"
              /\ t.result = Err("Decoding")
              /\ t.invoked = 0 /\ s.s2c = <<>> /\ s.sShut
        /\ t.result.kind = "Decoding" =>
              /\ t.pc = "done"
              /\ from_slice(t.R, t.payload) = DecodeError
              /\ t.payload = SubSeq(s.c2s, 13, 12 + Len(t.payload))

\* One task got three bytes that are no Echo and ended with Decoding;
\* another got two bytes of a route hash before its peer closed and ended
\* with a reading error.
C25_Witness ==
    \E c, d \in Conns :
        /\ task[c].result = Err("Decoding") /\ task[c].payload = <<193, 0, 0>>
        /\ stream[c].s2c = <<>> /\ stream[c].sShut
        /\ task[d].result = ErrKey("Reading", "Length") /\ task[d].steps = <<"read_type_id">>
        /\ stream[d].cShut /\ Len(stream[d].c2s) = 2 /\ stream[d].rd = 2
        /\ stream[d].s2c = <<>> /\ stream[d].sShut

\* C26 as stated: a task that read the length 0 reads an empty payload
\* without failing, the handler is invoked, and a response frame is written
\* (the whole of it unless the peer has closed by then).
C26_ZeroLengthAccepted ==
    \A c \in Conns :
        (/\ Ran(task[c].steps, "read_len") /\ task[c].len = as_u64(0)
         /\ ~faulty[c] /\ task[c].pc = "done") =>
            /\ task[c].payload = <<>>
            /\ Ran(task[c].steps, "read_payload")
            /\ task[c].invoked = 1
            /\ task[c].result.kind \in {"Ok", "Writing"}
            /\ task[c].result.kind = "Ok" => stream[c].s2c = ResponseFrame(task[c].response)

\* The order of the steps of a connection task.
TaskOrder ==
    <<"read_type_id", "lookup", "read_len", "read_payload", "decode", "handler",
      "encode", "write_len", "write_payload">>

\* C27: the steps a connection task has run are a prefix of read route hash,
\* look up, read length, read payload, decode, invoke, encode, write length,
\* write payload.  The handler is invoked at most once; when it was invoked
\* the task had read the route hash, the length and exactly the payload the
\* length announces, the request it was handed is the decoded payload, and
\* the handler is the one the route map holds for the route hash on the
\* stream.  A byte of the reply is on the stream only when the handler has
\* returned and its response was encoded, and the reply is that response.
C27_TaskOrder ==
    \A c \in Conns :
        LET t == task[c]
            s == stream[c] IN
        /\ IsPrefix(t.steps, TaskOrder)
        /\ t.invoked <= 1
        /\ t.invoked = Count(t.steps, "handler")
        /\ t.invoked = 1 =>
              /\ IsPrefix(SubSeq(TaskOrder, 1, 6), t.steps)
              /\ Len(s.c2s) >= 12
              /\ t.type_id = read_u32(SubSeq(s.c2s, 1, 4))
              /\ t.len = read_u64(SubSeq(s.c2s, 5, 12))
              /\ t.payload = SubSeq(s.c2s, 13, 12 + BufLen(t.len))
              /\ Len(t.payload) = BufLen(t.len)
              /\ t.request = from_slice(t.R, t.payload)
              /\ t.request # DecodeError
              /\ HashMapGet(routes, read_u32(SubSeq(s.c2s, 1, 4))) =
                     {[key |-> t.type_id, R |-> t.R, handler |-> t.handler]}
        /\ t.pc \in {"read_type_id", "lookup", "read_len", "read_payload", "decode", "handler",
                      "encode", "write_len"} => s.s2c = <<>>
        /\ s.s2c # <<>> =>
              /\ t.invoked = 1
              /\ t.result # Panicked
              /\ IsPrefix(SubSeq(TaskOrder, 1, 8), t.steps)
              /\ t.response = InvokeHandler(t.handler, t.request)
              /\ IsPrefix(s.s2c, ResponseFrame(t.response))
        /\ t.result.kind = "Ok" => t.steps = TaskOrder

\* A task ran all nine steps for a request of type Costarring on a router
\* where the later registration of Liquid, which has the same route hash,
\* holds the entry: the handler invoked is the one of the map.
C27_Witness ==
    \E c \in Conns :
        /\ task[c].result.kind = "Ok"
        /\ task[c].steps = TaskOrder
        /\ client[c].request.t = "Costarring"
        /\ task[c].R = "Liquid" /\ task[c].handler = "h2"
        /\ stream[c].s2c = ResponseFrame(InvokeHandler("h2", task[c].request))

\* The connection is the next one in the listener's queue.
NextPending(c) ==
    /\ stream[c].st = "pending"
    /\ \A d \in Conns : d < c => stream[d].st # "pending"

\* The task of the connection is running and the bytes its next step reads,
\* if it reads, have come.
TaskReady(c) ==
    /\ task[c].pc \notin {"none", "done", "aborted"}
    /\ task[c].pc = "read_type_id" => Avail(stream[c].c2s, stream[c].rd) >= 4
    /\ task[c].pc = "read_len" => Avail(stream[c].c2s, stream[c].rd) >= 8
    /\ task[c].pc = "read_payload" => Avail(stream[c].c2s, stream[c].rd) >= BufLen(task[c].len)

\* C28: while serve is in its accept loop, the next connection in the queue
\* can be accepted whatever the tasks of the earlier connections are doing
\* (waiting for bytes a client has not sent, inside a handler that has not
\* returned), and a task whose bytes have come can take its next step
\* whatever the other tasks are doing; a connection accepted while an
\* earlier task is still running gets its own task at once.
C28_AcceptNeverWaits ==
    /\ \A c \in Conns :
          (servePc = "accept" /\ NextPending(c)) => ENABLED ServeAccept(c)
    /\ \A c \in Conns : TaskReady(c) => ENABLED TaskStep(c)
    /\ \A c \in Conns :
          (stream[c].st = "open") => task[c].pc # "none"

\* The handler of the first connection has not returned; the second
\* connection was accepted after it, dispatched and answered.
C28_Witness ==
    \E c, d \in Conns :
        /\ c < d
        /\ task[c].pc = "handler" /\ task[c].invoked = 0
        /\ task[d].result.kind = "Ok"
        /\ client[d].result.kind = "Ok"
        /\ servePc = "accept"

\* The last route() call that registered route hash k.
LastCall(k) ==
    history[CHOOSE i \in 1..Len(history) :
                /\ type_id(history[i].R) = k
                /\ \A j \in (i + 1)..Len(history) : type_id(history[j].R) # k]

\* C29: last write wins.  For every route hash registered, by one request
\* type twice or by two request types whose route ids collide, the route map
\* holds exactly one entry, that of the last route() call for the hash; a
\* connection task that read the hash was dispatched to the request type and
\* the handler of that last call, and the response it computed is that
\* handler's.
C29_LastWriteWins ==
    /\ \A i \in 1..Len(history) :
          LET k == type_id(history[i].R) IN
          HashMapGet(routes, k) =
              {[key |-> k, R |-> LastCall(k).R, handler |-> LastCall(k).handler]}
    /\ \A c \in Conns :
          LET t == task[c] IN
          (LookedUp(c) /\ t.handler # "") =>
              /\ t.R = LastCall(t.type_id).R
              /\ t.handler = LastCall(t.type_id).handler
              /\ t.invoked = 1 => t.request.t = LastCall(t.type_id).R
              /\ (t.invoked = 1 /\ t.result # Panicked) =>
                    t.response = InvokeHandler(LastCall(t.type_id).handler, t.request)

\* Echo was registered with h1 and then with h2; a call for Echo was
\* answered by h2.
C29_Witness ==
    /\ history = <<[R |-> "Echo", handler |-> "h1"], [R |-> "Echo", handler |-> "h2"]>>
    /\ Cardinality(routes) = 1
    /\ \E c \in Conns :
          /\ task[c].invoked = 1 /\ task[c].handler = "h2"
          /\ client[c].result = Ok(InvokeHandler("h2", client[c].request))
          /\ client[c].result # Ok(InvokeHandler("h1", client[c].request))

TaskEnded(c) == task[c].pc \in {"done", "aborted"}

\* The call of the connection is over: send returned (or its future was
\* dropped), or the raw peer closed its socket.
CallOver(c) == client[c].pc \in {"done", "closed"}

\* C31: under fair scheduling, with peers that deliver or close and handlers
\* that return, every connection task that was spawned ends and its end of
\* the stream is shut down, and every call that was started is over in the
\* end: send has returned a response or an error.
C31_Termination ==
    \A c \in Conns :
        /\ (task[c].pc # "none") ~> (TaskEnded(c) /\ stream[c].sShut)
        /\ (client[c].pc # "idle") ~> CallOver(c)

\* A raw peer announced four payload bytes, sent three and closed: the task
\* that waited for the fourth ended with Reading(Payload), its end shut
\* down; and a send call on another connection returned Ok.
C31_Witness ==
    \E c, d \in Conns :
        /\ client[c].pc = "closed"
        /\ task[c].len = as_u64(4) /\ Len(stream[c].c2s) = 15
        /\ task[c].pc = "done" /\ task[c].result = ErrKey("Reading", "Payload")
        /\ stream[c].sShut
        /\ client[d].pc = "done" /\ client[d].result.kind = "Ok"
        /\ task[d].pc = "done" /\ stream[d].sShut

\* The connection task was spawned and has not ended.
InFlight(c) == task[c].pc \notin {"none", "done", "aborted"}

\* The state of one instant: a task in flight finds the router and the state
\* alive, and so did every handler that was called; the state is released
\* exactly when serve has returned and no task holds a handle any more.
LifetimeOk ==
    /\ \A c \in Conns : InFlight(c) => (RouterAlive /\ StateAlive)
    /\ \A c \in Conns : task[c].invoked > 0 => (task[c].aliveSeen /\ task[c].state = RouterState)
    /\ ~StateAlive <=> (servePc = "returned" /\ \A c \in Conns : ~InFlight(c))

\* The step by which serve returns leaves every task and every accepted
\* stream as it was.
ReturnCancelsNothing ==
    (servePc # "returned" /\ servePc' = "returned") =>
        /\ task' = task
        /\ \A c \in Conns : stream[c].st = "open" => stream'[c] = stream[c]

\* C32: the application state and the route map stay alive as long as a
\* connection task is running: the return of serve cancels no task in
\* flight, a task in flight keeps its handles, every handler call finds the
\* state alive, and the state is released only once serve has returned and
\* the last task has ended, never to come back.
C32_Lifetime ==
    /\ []LifetimeOk
    /\ [][ReturnCancelsNothing]_vars
    /\ [][StateAlive' => StateAlive]_vars

\* serve has returned with an Accept error while the task of a connection
\* was about to call its handler: the task still holds its handles, the
\* router and the state are alive, and the handler call is enabled; the
\* task of another connection has already ended with Ok.
C32_Witness ==
    \E c, d \in Conns :
        /\ servePc = "returned" /\ serveResult = Err("Accept")
        /\ task[c].pc = "handler" /\ task[c].holdsRouter /\ task[c].holdsState
        /\ RouterHandles = 1 /\ StateHandles = 2
        /\ ENABLED TaskInvoke(c)
        /\ task[d].pc = "done" /\ task[d].result = Ok([t |-> "Unit"]) /\ task[d].aliveSeen

====
